---- MODULE Spec2Model ----
(***************************************************************************)
(* A model of AbletonOSC's message gateway: the UDP dispatcher and process *)
(* loop of OSCServer (src/abletonosc/osc_server.py), its TCP bulk side     *)
(* channel, and the listener registry of AbletonOSCHandler                 *)
(* (src/abletonosc/handler.py).                                            *)
(***************************************************************************)
EXTENDS Integers, Sequences, FiniteSets, TLC

VARIABLES
    callbacks,      \* OSCServer._callbacks: insertion-ordered dict, a sequence of [address, handler]
    remote_addr,    \* OSCServer._remote_addr: <<host, port>>, the default destination of send()
    response_port,  \* OSCServer._response_port: the reply port given to the constructor
    udp_queue,      \* datagrams queued on the UDP socket, oldest first
    udp_socket,     \* OSCServer._socket: "open" or "closed"
    tcp_server,     \* OSCServer.tcp_server: "listening", or "none" for None
    tcp_socket,     \* the listening socket object itself: "open" or "closed"
    accept_pc,      \* where the accept loop is: "accept", "except", "retry" or "done"
    listener_functions, \* AbletonOSCHandler.listener_functions: ordered dict key -> callback
    listener_objects,   \* AbletonOSCHandler.listener_objects: ordered dict key -> target
    hooks,          \* the callbacks installed on the Live objects: [target, prop, fn]
    tvalue,         \* the current value of the observed property of each Live object
    tcp_handlers,   \* OSCServer.tcp_handlers: dict token -> bulk handler
    conns,          \* the accepted TCP connections, in the order of accept(), each with its worker
    op,             \* the most recent operation
    trace,          \* what the most recent operation did, in order
    queue_at_start, \* the datagrams that were queued when the most recent process() started
    raised,         \* the error the most recent operation let escape to its caller
    args,           \* the arguments of the most recent listener operation
    prev            \* the operation before the most recent one, if it was a _start_listen that returned

server == <<callbacks, remote_addr, response_port, udp_queue>>
registry == <<listener_functions, listener_objects, hooks, tvalue>>
tcp == <<tcp_handlers, conns>>
sockets == <<udp_socket, tcp_server, tcp_socket, accept_pc>>
vars == <<server, sockets, registry, tcp, op, trace, queue_at_start, raised, args, prev>>

---------------------------------------------------------------------------
(* Bounds of the model. *)

MaxQueue == 2       \* datagrams queued on the UDP socket
MaxCallbacks == 3   \* listener callbacks alive at a time (installed or registered)
MaxConns == 2       \* TCP connections accepted

(* Program constants. *)

OSC_RESPONSE_PORT == 11001

---------------------------------------------------------------------------
(* Values. *)

Range(s) == {s[i] : i \in 1..Len(s)}

NoAddr == <<"", 0>>     \* remote_addr = None

(* OSC addresses are strings; a string is a sequence of characters. *)
AddrA == <<"/", "a">>
AddrB == <<"/", "b">>
AddrAB == <<"/", "a", "/", "b">>
AddrStar == <<"/", "*">>
AddrStarB == <<"/", "*", "/", "b">>
Addresses == {AddrA, AddrB, AddrAB, AddrStar}

(* The callbacks the domain collaborators register.  The dispatcher sees a *)
(* callback only through what a call of it does: return None, return a     *)
(* tuple, or raise.                                                        *)
Handlers ==
    {"hNone", "hRet", "hEmpty", "hValueError", "hAttributeError", "hRuntimeError", "hSend"}

Outcome(h) ==
    CASE h = "hNone"           -> [exc |-> "none", none |-> TRUE, rv |-> <<>>]
      [] h = "hRet"            -> [exc |-> "none", none |-> FALSE, rv |-> <<3, 1, 2>>]
      [] h = "hEmpty"          -> [exc |-> "none", none |-> FALSE, rv |-> <<>>]
      [] h = "hSend"           -> [exc |-> "none", none |-> TRUE, rv |-> <<>>]
      [] h = "hValueError"     -> [exc |-> "ValueError", none |-> TRUE, rv |-> <<>>]
      [] h = "hAttributeError" -> [exc |-> "AttributeError", none |-> TRUE, rv |-> <<>>]
      [] OTHER                 -> [exc |-> "RuntimeError", none |-> TRUE, rv |-> <<>>]

(* A callback may itself call send() with no destination before it         *)
(* returns, as Manager.clip_get_is_midi_clip does and as the immediate     *)
(* emission of a _start_listen does.                                       *)
Emits(h) == h = "hSend"

AddrReport == <<"/", "r">>

(* Datagram payloads as the decoder sees them: magic is the bundle prefix,  *)
(* valid is whether OscMessage / OscBundle parses the bytes.               *)
Msg(a, p) == [magic |-> FALSE, valid |-> TRUE, address |-> a, params |-> p, items |-> <<>>]
Bundle(items) == [magic |-> TRUE, valid |-> TRUE, address |-> <<>>, params |-> <<>>, items |-> items]
Malformed(m) == [magic |-> m, valid |-> FALSE, address |-> <<>>, params |-> <<>>, items |-> <<>>]

Datagram(host, port, data) == [host |-> host, port |-> port, data |-> data]

(* A pending error of the socket, which the next recvfrom raises: a reset  *)
(* reported for an earlier send, or any other error.                       *)
SocketError(errno) ==
    [host |-> "", port |-> 0, data |-> Malformed(FALSE), errno |-> errno]

IsSocketError(d) == "errno" \in DOMAIN d

SocketErrors == {SocketError("ECONNRESET"), SocketError("EBADF")}

(* The registrations the collaborators make, and the datagrams the clients *)
(* send: plain messages, bundles (one nested) and undecodable bytes.       *)
Reg(a, h) == [address |-> a, handler |-> h]

Registrations ==
    { Reg(AddrA, "hRet"), Reg(AddrA, "hValueError"), Reg(AddrA, "hRuntimeError"),
      Reg(AddrB, "hNone"), Reg(AddrB, "hAttributeError"), Reg(AddrB, "hEmpty"),
      Reg(AddrAB, "hRet"), Reg(AddrAB, "hSend"),
      Reg(AddrStar, "hRet") }

MessageDatagrams ==
    { Datagram("h1", 50000, Msg(AddrA, <<>>)),
      Datagram("h2", 50001, Msg(AddrA, <<7>>)),
      Datagram("h1", 50001, Msg(AddrB, <<>>)),
      Datagram("h2", 50000, Msg(AddrAB, <<>>)),
      Datagram("h1", 50000, Msg(AddrStar, <<>>)),
      Datagram("h2", 50001, Msg(AddrStar, <<8>>)) }

BundleDatagrams ==
    { Datagram("h1", 50000, Bundle(<<Msg(AddrA, <<1>>), Msg(AddrB, <<2>>)>>)),
      Datagram("h2", 50001,
               Bundle(<<Msg(AddrB, <<1>>),
                        Bundle(<<Msg(AddrA, <<2>>), Msg(AddrStar, <<3>>)>>),
                        Msg(AddrA, <<4>>)>>)) }

MalformedDatagrams ==
    { Datagram("h1", 50001, Malformed(FALSE)), Datagram("h2", 50000, Malformed(TRUE)) }

(* The Live objects listened to, the observed property and the parameter   *)
(* tuples (such as a track index) that make up the listener keys.  Object  *)
(* "t3" has no listener functions for the property.                        *)
Targets == {"t1", "t2", "t3"}
Props == {"tempo"}
ParamTuples == {<<>>, <<0>>}
ClassIdentifier == "track"

HasListenerFunctions(target, prop) == target \in {"t1", "t2"}

(* A property value is a scalar or a tuple. *)
Scalar(v) == [is_tuple |-> FALSE, v |-> <<v>>]
Tuple(v) == [is_tuple |-> TRUE, v |-> v]
PropValues == {Scalar(5), Tuple(<<6, 7>>)}

NoArgs == [target |-> "", prop |-> "", params |-> <<>>]
NoCall == [op |-> "", args |-> NoArgs, sends |-> 0]

(* Events of the trace. *)
Ev(ev, address, key, h, params, peer) ==
    [ev |-> ev, address |-> address, key |-> key, h |-> h, params |-> params, peer |-> peer]
EvRecv(d) == Ev("recv", <<>>, <<>>, "", <<>>, <<d.host, d.port>>)
EvDispatch(m) == Ev("dispatch", m.address, <<>>, "", m.params, NoAddr)
EvInvoke(m, key, h) == Ev("invoke", m.address, key, h, m.params, NoAddr)
EvSend(address, params, dest, how) == Ev("send", address, <<>>, how, params, dest)
EvAddHandler(a, h) == Ev("add_handler", a, <<>>, h, <<>>, NoAddr)
EvLog(what, address) == Ev("log", address, <<>>, what, <<>>, NoAddr)
EvStep(what, key, target) == Ev(what, <<>>, key, target, <<>>, NoAddr)

Log(s, e) == [s EXCEPT !.trace = Append(@, e)]

---------------------------------------------------------------------------
(* The address table. *)

HasKey(table, a) == \E i \in 1..Len(table) : table[i].address = a

Lookup(table, a) == table[CHOOSE i \in 1..Len(table) : table[i].address = a].handler

(* Mutant: an address already registered keeps its handler. *)
add_handler_first_wins(table, a, h) ==
    IF HasKey(table, a) THEN table ELSE Append(table, [address |-> a, handler |-> h])

(* self._callbacks[address] = handler: a dict keeps a key's first position. *)
add_handler(table, a, h) ==
    IF HasKey(table, a)
    THEN [i \in 1..Len(table) |->
             IF table[i].address = a THEN [address |-> a, handler |-> h] ELSE table[i]]
    ELSE Append(table, [address |-> a, handler |-> h])

(* regex = message.address.replace("*", "[^/]+") *)
Regex(address) ==
    [i \in 1..Len(address) |-> IF address[i] = "*" THEN "[^/]+" ELSE address[i]]

(* re.match(regex, s): the regex matches at the start of s (not anchored   *)
(* at the end).  The tokens are literal characters and the class [^/]+ .   *)
RECURSIVE re_match(_, _)
re_match(regex, s) ==
    IF regex = <<>> THEN TRUE
    ELSE IF s = <<>> THEN FALSE
    ELSE IF Head(regex) = "[^/]+"
         THEN /\ Head(s) # "/"
              /\ \/ re_match(Tail(regex), Tail(s))
                 \/ re_match(regex, Tail(s))
         ELSE Head(regex) = Head(s) /\ re_match(Tail(regex), Tail(s))

---------------------------------------------------------------------------
(* OSCServer.send: builds the message and sends it to remote_addr, or to   *)
(* the default destination when remote_addr is None.                       *)
send(s, address, params, dest) ==
    IF dest = NoAddr
    THEN Log(s, EvSend(address, params, s.remote, "default"))
    ELSE Log(s, EvSend(address, params, dest, "override"))

(* rv = callback(message.params): the call, with what the callback sends   *)
(* while it runs.                                                          *)
call(s, message, key, callback) ==
    LET s1 == Log(s, EvInvoke(message, key, callback))
    IN IF Emits(callback) THEN send(s1, AddrReport, message.params, NoAddr) ELSE s1

(* Mutant: AttributeError is not caught in the fan-out. *)
RECURSIVE fan_out_attribute_error_escapes(_, _, _, _)
fan_out_attribute_error_escapes(s, message, from, i) ==
    IF i > Len(callbacks) THEN s
    ELSE LET callback_address == callbacks[i].address
             callback == callbacks[i].handler
         IN IF re_match(Regex(message.address), callback_address)
            THEN LET o == Outcome(callback)
                     s1 == call(s, message, callback_address, callback)
                 IN IF o.exc = "ValueError"
                    THEN fan_out_attribute_error_escapes(s1, message, from, i + 1)
                    ELSE IF o.exc # "none"
                    THEN [s1 EXCEPT !.err = o.exc]
                    ELSE IF ~o.none
                    THEN fan_out_attribute_error_escapes(
                             send(s1, callback_address, o.rv, <<from[1], response_port>>),
                             message, from, i + 1)
                    ELSE fan_out_attribute_error_escapes(s1, message, from, i + 1)
            ELSE fan_out_attribute_error_escapes(s, message, from, i + 1)

(* Mutant: the replies of the fan-out sent at the request's address. *)
RECURSIVE fan_out_reply_at_request_address(_, _, _, _)
fan_out_reply_at_request_address(s, message, from, i) ==
    IF i > Len(callbacks) THEN s
    ELSE LET callback_address == callbacks[i].address
             callback == callbacks[i].handler
         IN IF re_match(Regex(message.address), callback_address)
            THEN LET o == Outcome(callback)
                     s1 == call(s, message, callback_address, callback)
                 IN IF o.exc \in {"ValueError", "AttributeError"}
                    THEN fan_out_reply_at_request_address(s1, message, from, i + 1)
                    ELSE IF o.exc # "none"
                    THEN [s1 EXCEPT !.err = o.exc]
                    ELSE IF ~o.none
                    THEN fan_out_reply_at_request_address(
                             send(s1, message.address, o.rv, <<from[1], response_port>>),
                             message, from, i + 1)
                    ELSE fan_out_reply_at_request_address(s1, message, from, i + 1)
            ELSE fan_out_reply_at_request_address(s, message, from, i + 1)

(* The wildcard branch of process_message: every registration, in the      *)
(* dict's order, whose address the regex matches.                          *)
RECURSIVE fan_out(_, _, _, _)
fan_out(s, message, from, i) ==
    IF i > Len(callbacks) THEN s
    ELSE LET callback_address == callbacks[i].address
             callback == callbacks[i].handler
         IN IF re_match(Regex(message.address), callback_address)
            THEN LET o == Outcome(callback)
                     s1 == call(s, message, callback_address, callback)
                 IN IF o.exc \in {"ValueError", "AttributeError"}
                    THEN fan_out(s1, message, from, i + 1)
                    ELSE IF o.exc # "none"
                    THEN [s1 EXCEPT !.err = o.exc]
                    ELSE IF ~o.none
                    THEN fan_out(send(s1, callback_address, o.rv, <<from[1], response_port>>),
                                 message, from, i + 1)
                    ELSE fan_out(s1, message, from, i + 1)
            ELSE fan_out(s, message, from, i + 1)

(* Mutant: the wildcard test made before the exact lookup. *)
process_message_wildcard_first(s0, message, from) ==
    LET s == Log(s0, EvDispatch(message))
    IN IF "*" \in Range(message.address)
       THEN fan_out(s, message, from, 1)
       ELSE IF HasKey(callbacks, message.address)
       THEN LET callback == Lookup(callbacks, message.address)
                o == Outcome(callback)
                s1 == call(s, message, message.address, callback)
            IN IF o.exc # "none"
               THEN [s1 EXCEPT !.err = o.exc]
               ELSE IF ~o.none
               THEN send(s1, message.address, o.rv, <<from[1], response_port>>)
               ELSE s1
       ELSE Log(s, EvLog("unknown", message.address))

(* Mutant: the reply sent back to the datagram's own source address. *)
process_message_reply_to_source(s0, message, from) ==
    LET s == Log(s0, EvDispatch(message))
    IN IF HasKey(callbacks, message.address)
       THEN LET callback == Lookup(callbacks, message.address)
                o == Outcome(callback)
                s1 == call(s, message, message.address, callback)
            IN IF o.exc # "none"
               THEN [s1 EXCEPT !.err = o.exc]
               ELSE IF ~o.none
               THEN send(s1, message.address, o.rv, from)
               ELSE s1
       ELSE IF "*" \in Range(message.address)
       THEN fan_out(s, message, from, 1)
       ELSE Log(s, EvLog("unknown", message.address))

(* Mutant: an empty tuple is not replied to. *)
process_message_reply_if_truthy(s0, message, from) ==
    LET s == Log(s0, EvDispatch(message))
    IN IF HasKey(callbacks, message.address)
       THEN LET callback == Lookup(callbacks, message.address)
                o == Outcome(callback)
                s1 == call(s, message, message.address, callback)
            IN IF o.exc # "none"
               THEN [s1 EXCEPT !.err = o.exc]
               ELSE IF ~o.none /\ o.rv # <<>>
               THEN send(s1, message.address, o.rv, <<from[1], response_port>>)
               ELSE s1
       ELSE IF "*" \in Range(message.address)
       THEN fan_out(s, message, from, 1)
       ELSE Log(s, EvLog("unknown", message.address))

process_message(s0, message, from) ==
    LET s == Log(s0, EvDispatch(message))
    IN IF HasKey(callbacks, message.address)
       THEN LET callback == Lookup(callbacks, message.address)
                o == Outcome(callback)
                s1 == call(s, message, message.address, callback)
            IN IF o.exc # "none"
               THEN [s1 EXCEPT !.err = o.exc]
               ELSE IF ~o.none
               THEN send(s1, message.address, o.rv, <<from[1], response_port>>)
               ELSE s1
       ELSE IF "*" \in Range(message.address)
       THEN fan_out(s, message, from, 1)
       ELSE Log(s, EvLog("unknown", message.address))

dgram_is_bundle(data) == data.magic

(* Mutant: the nested bundles of a bundle are processed after its messages. *)
RECURSIVE process_bundle_nested_last(_, _, _)
process_bundle_nested_last(s, items, from) ==
    LET IsMessage(i) == ~dgram_is_bundle(i)
        IsBundle(i) == dgram_is_bundle(i)
        ordered == SelectSeq(items, IsMessage) \o SelectSeq(items, IsBundle)
    IN IF items = <<>> \/ s.err # "none" THEN s
       ELSE LET i == Head(ordered)
                s1 == IF dgram_is_bundle(i)
                      THEN process_bundle_nested_last(s, i.items, from)
                      ELSE process_message(s, i, from)
            IN process_bundle_nested_last(s1, Tail(ordered), from)

(* An error a handler raises leaves every enclosing loop. *)
RECURSIVE process_bundle(_, _, _)
process_bundle(s, items, from) ==
    IF items = <<>> \/ s.err # "none" THEN s
    ELSE LET i == Head(items)
             s1 == IF dgram_is_bundle(i)
                   THEN process_bundle(s, i.items, from)
                   ELSE process_message(s, i, from)
         IN process_bundle(s1, Tail(items), from)

(* Mutant: the error of a bundle that does not decode is not caught. *)
parse_bundle_bundle_error_escapes(s, data, from) ==
    IF ~data.valid
    THEN IF dgram_is_bundle(data)
         THEN [s EXCEPT !.err = "ParseError"]
         ELSE Log(s, EvLog("ParseError", <<>>))
    ELSE IF dgram_is_bundle(data)
    THEN process_bundle(s, data.items, from)
    ELSE process_message(s, data, from)

parse_bundle(s, data, from) ==
    IF ~data.valid
    THEN Log(s, EvLog("ParseError", <<>>))
    ELSE IF dgram_is_bundle(data)
    THEN process_bundle(s, data.items, from)
    ELSE process_message(s, data, from)

(* Mutant: the socket left in the blocking mode it is created in. *)
Blocking_default == TRUE

(* self._socket.setblocking(0) *)
Blocking == FALSE

(* recvfrom with nothing queued: a non-blocking socket raises EWOULDBLOCK,  *)
(* which process() passes over; a blocking socket waits, and process()     *)
(* does not return.                                                        *)
would_block(s) == IF Blocking THEN [s EXCEPT !.err = "blocked"] ELSE s

(* Mutant: the default destination updated after the datagram's dispatch. *)
RECURSIVE process_loop_update_after(_, _)
process_loop_update_after(s, q) ==
    IF q = <<>> THEN [st |-> would_block(s), q |-> q]
    ELSE IF IsSocketError(Head(q))
    THEN [st |-> Log(s, EvLog(Head(q).errno, <<>>)), q |-> Tail(q)]
    ELSE LET d == Head(q)
             s1 == Log(s, EvRecv(d))
             s2 == [parse_bundle(s1, d.data, <<d.host, d.port>>)
                       EXCEPT !.remote = <<d.host, OSC_RESPONSE_PORT>>]
         IN IF s2.err # "none"
            THEN [st |-> Log([s2 EXCEPT !.err = "none"], EvLog(s2.err, <<>>)), q |-> Tail(q)]
            ELSE process_loop_update_after(s2, Tail(q))

(* The loop of process(): recvfrom until it raises.  An empty queue raises *)
(* EWOULDBLOCK, which is passed over; any error from the dispatch is       *)
(* caught outside the loop and logged.                                     *)
(* Mutant: only socket errors are caught around the loop. *)
RECURSIVE process_loop_socket_errors_only(_, _)
process_loop_socket_errors_only(s, q) ==
    IF q = <<>> THEN [st |-> would_block(s), q |-> q]
    ELSE IF IsSocketError(Head(q))
    THEN [st |-> Log(s, EvLog(Head(q).errno, <<>>)), q |-> Tail(q)]
    ELSE LET d == Head(q)
             s1 == Log([s EXCEPT !.remote = <<d.host, OSC_RESPONSE_PORT>>], EvRecv(d))
             s2 == parse_bundle(s1, d.data, <<d.host, d.port>>)
         IN IF s2.err # "none"
            THEN [st |-> s2, q |-> Tail(q)]
            ELSE process_loop_socket_errors_only(s2, Tail(q))

(* Mutant: the default destination updated only for a datagram that decodes. *)
RECURSIVE process_loop_update_if_decoded(_, _)
process_loop_update_if_decoded(s, q) ==
    IF q = <<>> THEN [st |-> would_block(s), q |-> q]
    ELSE IF IsSocketError(Head(q))
    THEN [st |-> Log(s, EvLog(Head(q).errno, <<>>)), q |-> Tail(q)]
    ELSE LET d == Head(q)
             s0 == IF d.data.valid THEN [s EXCEPT !.remote = <<d.host, OSC_RESPONSE_PORT>>] ELSE s
             s1 == Log(s0, EvRecv(d))
             s2 == parse_bundle(s1, d.data, <<d.host, d.port>>)
         IN IF s2.err # "none"
            THEN [st |-> Log([s2 EXCEPT !.err = "none"], EvLog(s2.err, <<>>)), q |-> Tail(q)]
            ELSE process_loop_update_if_decoded(s2, Tail(q))

RECURSIVE process_loop(_, _)
process_loop(s, q) ==
    IF q = <<>> THEN [st |-> would_block(s), q |-> q]
    ELSE IF IsSocketError(Head(q))
    THEN [st |-> Log(s, EvLog(Head(q).errno, <<>>)), q |-> Tail(q)]
    ELSE LET d == Head(q)
             s1 == Log([s EXCEPT !.remote = <<d.host, OSC_RESPONSE_PORT>>], EvRecv(d))
             s2 == parse_bundle(s1, d.data, <<d.host, d.port>>)
         IN IF s2.err # "none"
            THEN [st |-> Log([s2 EXCEPT !.err = "none"], EvLog(s2.err, <<>>)), q |-> Tail(q)]
            ELSE process_loop(s2, Tail(q))

(* Manager.tick: process(), then the next tick is scheduled. *)
tick(s, q) ==
    LET r == process_loop(s, q)
    IN IF r.st.err # "none" THEN r
       ELSE [r EXCEPT !.st = Log(r.st, EvLog("schedule_message", <<>>))]

AddrDisconnected == <<"/live/connection/disconnected">>

(* send_disconnect: one send to the default destination; sendto raises on  *)
(* a closed socket and may fail on an open one, and the error is logged.   *)
send_disconnect(s, sendto_fails) ==
    IF s.udp = "closed"
    THEN Log(s, EvLog("Error sending disconnect signal", <<"EBADF">>))
    ELSE IF sendto_fails
    THEN Log(s, EvLog("Error sending disconnect signal", <<"sendto">>))
    ELSE send(s, AddrDisconnected, <<1>>, NoAddr)

close_udp(s) == Log([s EXCEPT !.udp = "closed"], EvLog("close", <<"udp">>))

close_tcp(s) ==
    IF s.tcp = "listening"
    THEN Log([s EXCEPT !.tcp = "none"], EvLog("close", <<"tcp">>))
    ELSE s

(* Mutant: the sockets closed before the notification is sent. *)
shutdown_close_first(s, sendto_fails) ==
    send_disconnect(close_tcp(close_udp(s)), sendto_fails)

shutdown(s, sendto_fails) ==
    close_tcp(close_udp(send_disconnect(s, sendto_fails)))

---------------------------------------------------------------------------
(* The listener registry of AbletonOSCHandler.  A dict is a sequence of    *)
(* [key, val] in insertion order.                                          *)

InDict(d, key) == \E i \in 1..Len(d) : d[i].key = key

Get(d, key) == d[CHOOSE i \in 1..Len(d) : d[i].key = key].val

Put(d, key, val) ==
    IF InDict(d, key)
    THEN [i \in 1..Len(d) |-> IF d[i].key = key THEN [key |-> key, val |-> val] ELSE d[i]]
    ELSE Append(d, [key |-> key, val |-> val])

Del(d, key) == LET Keep(e) == e.key # key IN SelectSeq(d, Keep)

Hook(target, prop, fn) == [target |-> target, prop |-> prop, fn |-> fn]

(* The closure property_changed_callback that one _start_listen call       *)
(* creates: a new function object each time.                               *)
(* created_for is not part of the function object: it records the default  *)
(* destination at the time of the call that created it.                    *)
Closure(id, target, prop, params, created_for) ==
    [id |-> id, target |-> target, prop |-> prop, params |-> params,
     created_for |-> created_for]

UsedIds(fns, hks) == {fns[i].val.id : i \in 1..Len(fns)} \cup {h.fn.id : h \in hks}

FreshId(fns, hks) == CHOOSE id \in 1..MaxCallbacks : id \notin UsedIds(fns, hks)

(* Mutant: the value is sent to the destination that was the default when *)
(* the subscription was made.                                              *)
property_changed_callback_to_subscriber(L, fn) ==
    LET value == L.tvalue[fn.target].v
        osc_address == <<"/live/", ClassIdentifier, "/get/", fn.prop>>
    IN send(L, osc_address, fn.params \o value, fn.created_for)

(* property_changed_callback(): reads the value, makes it a tuple and      *)
(* sends it after the params to the default destination.                   *)
property_changed_callback(L, fn) ==
    LET value == L.tvalue[fn.target].v
        osc_address == <<"/live/", ClassIdentifier, "/get/", fn.prop>>
    IN send(L, osc_address, fn.params \o value, NoAddr)

(* Mutant: the lookup of the remove function is inside the try, so a       *)
(* target without it counts as a benign failure of the removal.            *)
stop_listen_getattr_in_try(L, target, prop, params) ==
    LET listener_key == <<prop, params>>
    IN IF InDict(L.fns, listener_key)
       THEN LET listener_function == Get(L.fns, listener_key)
                L1 == IF /\ HasListenerFunctions(target, prop)
                         /\ Hook(target, prop, listener_function) \in L.hooks
                      THEN Log([L EXCEPT !.hooks = @ \ {Hook(target, prop, listener_function)}],
                               EvStep("remove_listener", listener_key, target))
                      ELSE Log(L, EvLog("Exception whilst removing listener", <<>>))
            IN Log([L1 EXCEPT !.fns = Del(@, listener_key), !.objs = Del(@, listener_key)],
                   EvStep("del", listener_key, target))
       ELSE Log(L, EvLog("No listener function found", <<>>))

(* Mutant: no test that the key is registered before removing it. *)
stop_listen_unchecked(L, target, prop, params) ==
    LET listener_key == <<prop, params>>
    IN IF InDict(L.fns, listener_key)
       THEN LET listener_function == Get(L.fns, listener_key)
            IN IF ~HasListenerFunctions(target, prop)
               THEN [L EXCEPT !.err = "AttributeError"]
               ELSE LET L1 == IF Hook(target, prop, listener_function) \in L.hooks
                              THEN Log([L EXCEPT !.hooks = @ \ {Hook(target, prop, listener_function)}],
                                       EvStep("remove_listener", listener_key, target))
                              ELSE Log(L, EvLog("Exception whilst removing listener", <<>>))
                    IN Log([L1 EXCEPT !.fns = Del(@, listener_key), !.objs = Del(@, listener_key)],
                           EvStep("del", listener_key, target))
       ELSE [L EXCEPT !.err = "KeyError"]

stop_listen(L, target, prop, params) ==
    LET listener_key == <<prop, params>>
    IN IF InDict(L.fns, listener_key)
       THEN LET listener_function == Get(L.fns, listener_key)
            IN IF ~HasListenerFunctions(target, prop)
               THEN [L EXCEPT !.err = "AttributeError"]
               ELSE LET L1 == IF Hook(target, prop, listener_function) \in L.hooks
                              THEN Log([L EXCEPT !.hooks = @ \ {Hook(target, prop, listener_function)}],
                                       EvStep("remove_listener", listener_key, target))
                              ELSE Log(L, EvLog("Exception whilst removing listener", <<>>))
                    IN Log([L1 EXCEPT !.fns = Del(@, listener_key), !.objs = Del(@, listener_key)],
                           EvStep("del", listener_key, target))
       ELSE Log(L, EvLog("No listener function found", <<>>))

(* Mutant: the current value is not sent at subscribe time. *)
start_listen_no_immediate_send(L, target, prop, params) ==
    LET listener_key == <<prop, params>>
        L1 == IF InDict(L.fns, listener_key) THEN stop_listen(L, target, prop, params) ELSE L
    IN IF L1.err # "none" THEN L1
       ELSE IF ~HasListenerFunctions(target, prop)
       THEN [L1 EXCEPT !.err = "AttributeError"]
       ELSE LET fn == Closure(FreshId(L1.fns, L1.hooks), target, prop, params, L1.remote)
                L2 == Log([L1 EXCEPT !.hooks = @ \cup {Hook(target, prop, fn)}],
                          EvStep("add_listener", listener_key, target))
            IN Log([L2 EXCEPT !.fns = Put(@, listener_key, fn),
                              !.objs = Put(@, listener_key, target)],
                   EvStep("record", listener_key, target))

(* Mutant: the current value is sent before the hook is installed and the *)
(* key recorded.                                                           *)
start_listen_send_first(L, target, prop, params) ==
    LET listener_key == <<prop, params>>
        L1 == IF InDict(L.fns, listener_key) THEN stop_listen(L, target, prop, params) ELSE L
    IN IF L1.err # "none" THEN L1
       ELSE IF ~HasListenerFunctions(target, prop)
       THEN [L1 EXCEPT !.err = "AttributeError"]
       ELSE LET fn == Closure(FreshId(L1.fns, L1.hooks), target, prop, params, L1.remote)
                L2 == property_changed_callback(L1, fn)
                L3 == Log([L2 EXCEPT !.hooks = @ \cup {Hook(target, prop, fn)}],
                          EvStep("add_listener", listener_key, target))
            IN Log([L3 EXCEPT !.fns = Put(@, listener_key, fn),
                              !.objs = Put(@, listener_key, target)],
                   EvStep("record", listener_key, target))

start_listen(L, target, prop, params) ==
    LET listener_key == <<prop, params>>
        L1 == IF InDict(L.fns, listener_key) THEN stop_listen(L, target, prop, params) ELSE L
    IN IF L1.err # "none" THEN L1
       ELSE IF ~HasListenerFunctions(target, prop)
       THEN [L1 EXCEPT !.err = "AttributeError"]
       ELSE LET fn == Closure(FreshId(L1.fns, L1.hooks), target, prop, params, L1.remote)
                L2 == Log([L1 EXCEPT !.hooks = @ \cup {Hook(target, prop, fn)}],
                          EvStep("add_listener", listener_key, target))
                L3 == Log([L2 EXCEPT !.fns = Put(@, listener_key, fn),
                                     !.objs = Put(@, listener_key, target)],
                          EvStep("record", listener_key, target))
            IN property_changed_callback(L3, fn)

(* _clear_listeners: stops every key of a snapshot of the registry, each   *)
(* with the target recorded for it.                                        *)
RECURSIVE clear_listeners(_, _)
clear_listeners(L, keys) ==
    IF keys = <<>> \/ L.err # "none" THEN L
    ELSE LET listener_key == Head(keys)
             target == Get(L.objs, listener_key)
         IN clear_listeners(stop_listen(L, target, listener_key[1], listener_key[2]), Tail(keys))

(* The Live object calls the callbacks installed on it, here in the order  *)
(* of their creation.                                                      *)
RECURSIVE notify(_, _, _)
notify(L, target, id) ==
    IF id > MaxCallbacks THEN L
    ELSE LET hs == {h \in L.hooks : h.target = target /\ h.fn.id = id}
         IN IF hs = {} THEN notify(L, target, id + 1)
            ELSE notify(property_changed_callback(L, (CHOOSE h \in hs : TRUE).fn), target, id + 1)

Registry ==
    [fns |-> listener_functions, objs |-> listener_objects, hooks |-> hooks,
     tvalue |-> tvalue, trace |-> <<>>, err |-> "none", remote |-> remote_addr]

CountSends(t) == Cardinality({i \in 1..Len(t) : t[i].ev = "send"})

---------------------------------------------------------------------------
(* Text and bytes of the TCP side channel.  A str is a sequence of code    *)
(* points, a bytes object a sequence of numbers below 256.                 *)

(* str.encode('utf-8') of one code point; a surrogate cannot be encoded.   *)
Utf8(cp) ==
    IF cp < 128 THEN <<cp>>
    ELSE IF cp < 2048 THEN <<192 + (cp \div 64), 128 + (cp % 64)>>
    ELSE IF cp < 65536
    THEN <<224 + (cp \div 4096), 128 + ((cp \div 64) % 64), 128 + (cp % 64)>>
    ELSE <<240 + (cp \div 262144), 128 + ((cp \div 4096) % 64), 128 + ((cp \div 64) % 64),
           128 + (cp % 64)>>

IsSurrogate(cp) == cp >= 55296 /\ cp <= 57343

Encodes(text) == \A i \in 1..Len(text) : ~IsSurrogate(text[i])

RECURSIVE encode(_)
encode(text) ==
    IF text = <<>> THEN <<>>
    ELSE IF Len(text) = 1 THEN Utf8(text[1])
    ELSE LET half == Len(text) \div 2
         IN encode(SubSeq(text, 1, half)) \o encode(SubSeq(text, half + 1, Len(text)))

(* bytes.decode('utf-8'): [ok, text]; ok is FALSE for UnicodeDecodeError.  *)
IsCont(b) == b >= 128 /\ b <= 191

AsciiRun(b) ==
    LET other == {k \in 1..Len(b) : b[k] >= 128}
    IN IF other = {} THEN Len(b) ELSE (CHOOSE k \in other : \A j \in other : k <= j) - 1

RECURSIVE decode(_)
decode(b) ==
    IF b = <<>> THEN [ok |-> TRUE, text |-> <<>>]
    ELSE IF b[1] < 128
    THEN LET n == AsciiRun(b)
             rest == decode(SubSeq(b, n + 1, Len(b)))
         IN IF rest.ok THEN [ok |-> TRUE, text |-> SubSeq(b, 1, n) \o rest.text]
            ELSE [ok |-> FALSE, text |-> <<>>]
    ELSE LET n == IF b[1] < 128 THEN 1
                  ELSE IF b[1] >= 194 /\ b[1] <= 223 THEN 2
                  ELSE IF b[1] >= 224 /\ b[1] <= 239 THEN 3
                  ELSE IF b[1] >= 240 /\ b[1] <= 244 THEN 4
                  ELSE 0
         IN IF n = 0 \/ Len(b) < n \/ \E i \in 2..n : ~IsCont(b[i])
            THEN [ok |-> FALSE, text |-> <<>>]
            ELSE LET cp == IF n = 1 THEN b[1]
                           ELSE IF n = 2 THEN ((b[1] - 192) * 64) + (b[2] - 128)
                           ELSE IF n = 3
                           THEN ((b[1] - 224) * 4096) + ((b[2] - 128) * 64) + (b[3] - 128)
                           ELSE ((b[1] - 240) * 262144) + ((b[2] - 128) * 4096)
                                + ((b[3] - 128) * 64) + (b[4] - 128)
                     rest == decode(SubSeq(b, n + 1, Len(b)))
                     well == /\ n = 3 => (cp >= 2048 /\ ~IsSurrogate(cp))
                             /\ n = 4 => (cp >= 65536 /\ cp <= 1114111)
                 IN IF well /\ rest.ok
                    THEN [ok |-> TRUE, text |-> <<cp>> \o rest.text]
                    ELSE [ok |-> FALSE, text |-> <<>>]

(* str.strip(): the white space at both ends removed. *)
IsSpace(c) == c \in {9, 10, 11, 12, 13, 28, 29, 30, 31, 32, 133, 160}

RECURSIVE lstrip(_)
lstrip(text) ==
    IF text # <<>> /\ IsSpace(Head(text)) THEN lstrip(Tail(text)) ELSE text

RECURSIVE rstrip(_)
rstrip(text) ==
    IF text # <<>> /\ IsSpace(text[Len(text)])
    THEN rstrip(SubSeq(text, 1, Len(text) - 1))
    ELSE text

strip(text) == rstrip(lstrip(text))

(* int.to_bytes(4, byteorder='big'), for a length below 2^32. *)
to_bytes(n) ==
    <<(n \div 16777216) % 256, (n \div 65536) % 256, (n \div 256) % 256, n % 256>>

(* json.dumps with its defaults (ensure_ascii, separators ", " and ": ").  *)
HexDigit(d) == IF d < 10 THEN 48 + d ELSE 87 + d

EscapeU(u) ==
    <<92, 117, HexDigit(u \div 4096), HexDigit((u \div 256) % 16),
      HexDigit((u \div 16) % 16), HexDigit(u % 16)>>

EscapeChar(c) ==
    IF c = 34 THEN <<92, 34>>
    ELSE IF c = 92 THEN <<92, 92>>
    ELSE IF c = 10 THEN <<92, 110>>
    ELSE IF c = 13 THEN <<92, 114>>
    ELSE IF c = 9 THEN <<92, 116>>
    ELSE IF c = 8 THEN <<92, 98>>
    ELSE IF c = 12 THEN <<92, 102>>
    ELSE IF c >= 32 /\ c <= 126 THEN <<c>>
    ELSE IF c < 65536 THEN EscapeU(c)
    ELSE EscapeU(55296 + ((c - 65536) \div 1024)) \o EscapeU(56320 + ((c - 65536) % 1024))

RECURSIVE Escape(_)
Escape(text) ==
    IF text = <<>> THEN <<>>
    ELSE IF Len(text) = 1 THEN EscapeChar(text[1])
    ELSE LET half == Len(text) \div 2
         IN Escape(SubSeq(text, 1, half)) \o Escape(SubSeq(text, half + 1, Len(text)))

JStr(text) == [t |-> "str", s |-> text, items |-> <<>>]
JList(items) == [t |-> "list", s |-> <<>>, items |-> items]
JObj(key, val) == [t |-> "obj", s |-> key, items |-> <<val>>]
JOpaque == [t |-> "opaque", s |-> <<>>, items |-> <<>>]    \* an object json cannot serialise

RECURSIVE Serialisable(_)
Serialisable(v) ==
    /\ v.t # "opaque"
    /\ \A i \in 1..Len(v.items) : Serialisable(v.items[i])

RECURSIVE json_dumps(_)
RECURSIVE json_dumps_items(_)
json_dumps(v) ==
    IF v.t = "str" THEN <<34>> \o Escape(v.s) \o <<34>>
    ELSE IF v.t = "list" THEN <<91>> \o json_dumps_items(v.items) \o <<93>>
    ELSE <<123, 34>> \o Escape(v.s) \o <<34, 58, 32>> \o json_dumps(v.items[1]) \o <<125>>

json_dumps_items(items) ==
    IF items = <<>> THEN <<>>
    ELSE IF Len(items) = 1 THEN json_dumps(items[1])
    ELSE json_dumps(Head(items)) \o <<44, 32>> \o json_dumps_items(Tail(items))

StrError == <<101, 114, 114, 111, 114>>
StrUnknownRequest == <<85, 110, 107, 110, 111, 119, 110, 32, 114, 101, 113, 117, 101, 115, 116, 58, 32>>

StrBoom == <<98, 111, 111, 109, 34, 233>>    \* str(e) of the error a handler raises: boom"e-acute
StrNotSerializable == <<79, 98, 106, 101, 99, 116, 32, 111, 102, 32, 116, 121, 112, 101, 32, 68, 101, 118, 105, 99, 101, 32, 105, 115, 32, 110, 111, 116, 32, 74, 83, 79, 78, 32, 115, 101, 114, 105, 97, 108, 105, 122, 97, 98, 108, 101>>

(* str(e) of the UnicodeEncodeError for a lone surrogate at position 1. *)
StrEncodeError == <<39, 117, 116, 102, 45, 56, 39, 32, 99, 111, 100, 101, 99, 32, 99, 97, 110, 39, 116, 32, 101, 110, 99, 111, 100, 101, 32, 99, 104, 97, 114, 97, 99, 116, 101, 114, 32, 39, 92, 117, 100, 56, 51, 100, 39, 32, 105, 110, 32, 112, 111, 115, 105, 116, 105, 111, 110, 32, 49, 58, 32, 115, 117, 114, 114, 111, 103, 97, 116, 101, 115, 32, 110, 111, 116, 32, 97, 108, 108, 111, 119, 101, 100>>

(* The bulk handlers the collaborators register.  A call returns a str, or *)
(* a value for json.dumps, or raises.                                      *)
BulkOutcome(h) ==
    CASE h = "bJson"   -> [raises |-> FALSE, is_str |-> TRUE,
                           text |-> json_dumps(JList(<<JStr(<<97>>)>>)), value |-> JOpaque]
      [] h = "bText"   -> [raises |-> FALSE, is_str |-> TRUE,
                           text |-> <<91, 34, 233, 34, 93>>, value |-> JOpaque]
      [] h = "bList"   -> [raises |-> FALSE, is_str |-> FALSE,
                           text |-> <<>>, value |-> JList(<<JStr(<<97>>), JStr(<<8364>>)>>)]
      [] h = "bOpaque" -> [raises |-> FALSE, is_str |-> FALSE,
                           text |-> <<>>, value |-> JOpaque]
      [] h = "bSurrogate" -> [raises |-> FALSE, is_str |-> TRUE,
                              text |-> <<34, 55357, 34>>, value |-> JOpaque]
      [] OTHER         -> [raises |-> TRUE, is_str |-> FALSE,
                           text |-> StrBoom, value |-> JOpaque]

(* The two sendall calls of a response: len(text) as four bytes, then the  *)
(* text encoded.                                                           *)
frame(text) == to_bytes(Len(text)) \o encode(text)

error_response(message) == json_dumps(JObj(StrError, JStr(message)))

(* The text cannot be encoded: the length prefix is already written when  *)
(* encode raises, and the except branch then writes the error object.      *)
encode_error(response_data) ==
    [path |-> "encode_error",
     out |-> to_bytes(Len(response_data)) \o frame(error_response(StrEncodeError))]

(* Mutant: a failure of the handler ends the connection with no response. *)
respond_drop_on_error(handler) ==
    LET o == BulkOutcome(handler)
    IN IF o.raises \/ (~o.is_str /\ ~Serialisable(o.value))
       THEN [path |-> "handler_error", out |-> <<>>]
       ELSE LET response_data == IF o.is_str THEN o.text ELSE json_dumps(o.value)
            IN IF ~Encodes(response_data) THEN encode_error(response_data)
               ELSE [path |-> "hit", out |-> frame(response_data)]

(* What the try block around handler() writes to the client. *)
respond(handler) ==
    LET o == BulkOutcome(handler)
    IN IF o.raises
       THEN [path |-> "handler_error", out |-> frame(error_response(o.text))]
       ELSE IF ~o.is_str /\ ~Serialisable(o.value)
       THEN [path |-> "handler_error", out |-> frame(error_response(StrNotSerializable))]
       ELSE LET response_data == IF o.is_str THEN o.text ELSE json_dumps(o.value)
            IN IF ~Encodes(response_data) THEN encode_error(response_data)
               ELSE [path |-> "hit", out |-> frame(response_data)]

(* Mutant: the error object written without json.dumps. *)
unknown_request_response_unescaped(request) ==
    <<123, 34>> \o StrError \o <<34, 58, 32, 34>> \o StrUnknownRequest \o request \o <<34, 125>>

unknown_request_response(request) == error_response(StrUnknownRequest \o request)

(* The threads.  Live calls tick() in the cooperative domain; the accept   *)
(* loop runs on the thread _initialize_tcp_server starts; the loop starts  *)
(* a new thread for every client it accepts.                               *)
MainThread == 0

tcp_thread == 1

(* Mutant: the accept loop calls _handle_tcp_client itself. *)
client_thread_inline(i) == tcp_thread

client_thread(i) == tcp_thread + i

(* A connection and its worker: read says whether recv was called ("no",   *)
(* "once", "again"), responses counts the responses written, thread is     *)
(* the thread that runs _handle_tcp_client for it, listener is the object  *)
(* whose listening socket accepted it.                                     *)
Conn(pc, request, handler, out, path, invoked) ==
    [pc |-> pc, request |-> request, handler |-> handler, out |-> out, path |-> path,
     invoked |-> invoked, read |-> "no", responses |-> 0, thread |-> tcp_thread,
     listener |-> "OSCServer"]

(* A thread is busy while a client it runs is not closed; it takes its     *)
(* clients in the order they were handed to it.                            *)
Busy(cs, t) == \E k \in 1..Len(cs) : cs[k].thread = t /\ cs[k].pc # "closed"

Runnable(cs, i) ==
    \A k \in 1..(i - 1) : cs[k].thread = cs[i].thread => cs[k].pc = "closed"

(* Mutant: the worker goes back to reading the connection. *)
Closed_keep_open(c, path, out) ==
    [c EXCEPT !.pc = "recv", !.path = path, !.out = out,
              !.responses = IF out = <<>> THEN @ ELSE 1]

(* The end of _handle_tcp_client: what was written, and client.close(). *)
Closed(c, path, out) ==
    [c EXCEPT !.pc = "closed", !.path = path, !.out = out,
              !.responses = IF out = <<>> THEN @ ELSE @ + 1]

---------------------------------------------------------------------------
(* Operations. *)

Init ==
    /\ callbacks = <<>>
    /\ response_port = OSC_RESPONSE_PORT
    /\ remote_addr = <<"127.0.0.1", response_port>>
    /\ udp_queue = <<>>
    /\ udp_socket = "open"
    /\ tcp_server = "listening"
    /\ tcp_socket = "open"
    /\ accept_pc = "accept"
    /\ op = "init"
    /\ trace = <<>>
    /\ queue_at_start = <<>>
    /\ raised = "none"
    /\ listener_functions = <<>>
    /\ listener_objects = <<>>
    /\ hooks = {}
    /\ tvalue = [t \in Targets |-> Scalar(5)]
    /\ args = NoArgs
    /\ prev = NoCall
    /\ tcp_handlers = <<>>
    /\ conns = <<>>

AddHandler ==
    \E r \in Registrations :
        /\ callbacks' = add_handler(callbacks, r.address, r.handler)
        /\ op' = "add_handler"
        /\ trace' = <<EvAddHandler(r.address, r.handler)>>
        /\ raised' = "none"
        /\ queue_at_start' = <<>>
        /\ UNCHANGED <<sockets, remote_addr, response_port, udp_queue, registry, tcp, args, prev>>

(* A client's datagram arrives on the socket. *)
Arrive(d) ==
    /\ udp_socket = "open"
    /\ Len(udp_queue) < MaxQueue
    /\ udp_queue' = Append(udp_queue, d)
    /\ op' = "arrive"
    /\ trace' = <<>>
    /\ queue_at_start' = <<>>
    /\ raised' = "none"
    /\ UNCHANGED <<sockets, callbacks, remote_addr, response_port, registry, tcp, args, prev>>

ArriveMessage == \E d \in MessageDatagrams : Arrive(d)

ArriveBundle == \E d \in BundleDatagrams : Arrive(d)

ArriveMalformed == \E d \in MalformedDatagrams : Arrive(d)

ArriveSocketError == \E d \in SocketErrors : Arrive(d)

(* A tick, in the cooperative domain.  recvfrom on a closed socket raises  *)
(* a socket error.                                                         *)
Process ==
    LET q == IF udp_socket = "open" THEN udp_queue ELSE <<SocketError("EBADF")>>
        r == tick([trace |-> <<>>, err |-> "none", remote |-> remote_addr], q)
    IN /\ ~Busy(conns, MainThread)
       /\ udp_queue' = IF udp_socket = "open" THEN r.q ELSE udp_queue
       /\ remote_addr' = r.st.remote
       /\ trace' = r.st.trace
       /\ queue_at_start' = udp_queue
       /\ op' = "process"
       /\ raised' = r.st.err
       /\ UNCHANGED <<sockets, callbacks, response_port, registry, tcp, args, prev>>

(* What a listener operation leaves behind. *)
Commit(name, a, L) ==
    /\ listener_functions' = L.fns
    /\ listener_objects' = L.objs
    /\ hooks' = L.hooks
    /\ trace' = L.trace
    /\ raised' = L.err
    /\ op' = name
    /\ args' = a
    /\ prev' = IF op = "start_listen" /\ raised = "none"
               THEN [op |-> op, args |-> args, sends |-> CountSends(trace)]
               ELSE NoCall
    /\ queue_at_start' = <<>>
    /\ UNCHANGED <<sockets, server, tcp>>

StartListenOn(target, prop, params) ==
    /\ \E id \in 1..MaxCallbacks : id \notin UsedIds(listener_functions, hooks)
    /\ Commit("start_listen", [target |-> target, prop |-> prop, params |-> params],
              start_listen(Registry, target, prop, params))
    /\ UNCHANGED tvalue

StartListen ==
    \E target \in Targets, prop \in Props, params \in ParamTuples :
        StartListenOn(target, prop, params)

StopListenOn(target, prop, params) ==
    /\ Commit("stop_listen", [target |-> target, prop |-> prop, params |-> params],
              stop_listen(Registry, target, prop, params))
    /\ UNCHANGED tvalue

StopListen ==
    \E target \in Targets, prop \in Props, params \in ParamTuples :
        StopListenOn(target, prop, params)

ClearListeners ==
    /\ Commit("clear_listeners", NoArgs,
              clear_listeners(Registry, [i \in 1..Len(listener_functions) |-> listener_functions[i].key]))
    /\ UNCHANGED tvalue

(* The observed property of a Live object changes. *)
PropertyChangedOn(target) ==
    \E v \in PropValues :
        /\ HasListenerFunctions(target, "tempo")
        /\ v # tvalue[target]
        /\ tvalue' = [tvalue EXCEPT ![target] = v]
        /\ Commit("property_changed", [target |-> target, prop |-> "tempo", params |-> <<>>],
                  notify([Registry EXCEPT !.tvalue = tvalue'], target, 1))

PropertyChanged == \E target \in Targets : PropertyChangedOn(target)

NextListen == StartListen \/ StopListen \/ ClearListeners \/ PropertyChanged

SpecListen == Init /\ [][NextListen]_vars

(* The tables a session starts the traffic with. *)
StartupTables ==
    { <<>>,
      <<Reg(AddrA, "hRet"), Reg(AddrB, "hEmpty")>>,
      <<Reg(AddrA, "hRet"), Reg(AddrB, "hNone"), Reg(AddrAB, "hRet")>>,
      <<Reg(AddrA, "hRuntimeError"), Reg(AddrB, "hEmpty")>>,
      <<Reg(AddrB, "hAttributeError"), Reg(AddrStar, "hRet"), Reg(AddrA, "hValueError")>> }

InitProcess ==
    /\ callbacks \in StartupTables
    /\ response_port = OSC_RESPONSE_PORT
    /\ remote_addr = <<"127.0.0.1", response_port>>
    /\ udp_queue = <<>>
    /\ udp_socket = "open"
    /\ tcp_server = "listening"
    /\ tcp_socket = "open"
    /\ accept_pc = "accept"
    /\ op = "init"
    /\ trace = <<>>
    /\ queue_at_start = <<>>
    /\ raised = "none"
    /\ listener_functions = <<>>
    /\ listener_objects = <<>>
    /\ hooks = {}
    /\ tvalue = [t \in Targets |-> Scalar(5)]
    /\ args = NoArgs
    /\ prev = NoCall
    /\ tcp_handlers = <<>>
    /\ conns = <<>>

NextProcess ==
    ArriveMessage \/ ArriveBundle \/ ArriveMalformed \/ ArriveSocketError \/ Process

SpecProcess == InitProcess /\ [][NextProcess]_vars

(* Manager.disconnect calls shutdown(); sendto may fail. *)
Shutdown ==
    \E sendto_fails \in BOOLEAN :
        LET r == shutdown([trace |-> <<>>, err |-> "none", remote |-> remote_addr,
                           udp |-> udp_socket, tcp |-> tcp_server], sendto_fails)
        IN /\ udp_socket' = r.udp
           /\ tcp_server' = r.tcp
           /\ tcp_socket' = (IF tcp_server = "listening" THEN "closed" ELSE tcp_socket)
           /\ accept_pc' = accept_pc
           /\ trace' = r.trace
           /\ raised' = r.err
           /\ op' = "shutdown"
           /\ queue_at_start' = <<>>
           /\ UNCHANGED <<server, registry, tcp, args, prev>>

(* The TCP server may have failed to start: tcp_server is None then. *)
InitShutdown ==
    /\ callbacks \in StartupTables
    /\ response_port = OSC_RESPONSE_PORT
    /\ remote_addr = <<"127.0.0.1", response_port>>
    /\ udp_queue = <<>>
    /\ udp_socket = "open"
    /\ tcp_server \in {"listening", "none"}
    /\ tcp_socket = (IF tcp_server = "listening" THEN "open" ELSE "closed")
    /\ accept_pc = (IF tcp_server = "listening" THEN "accept" ELSE "done")
    /\ op = "init"
    /\ trace = <<>>
    /\ queue_at_start = <<>>
    /\ raised = "none"
    /\ listener_functions = <<>>
    /\ listener_objects = <<>>
    /\ hooks = {}
    /\ tvalue = [t \in Targets |-> Scalar(5)]
    /\ args = NoArgs
    /\ prev = NoCall
    /\ tcp_handlers = <<>>
    /\ conns = <<>>

NextShutdown == ArriveMessage \/ Process \/ Shutdown

SpecShutdown == InitShutdown /\ [][NextShutdown]_vars

(* Every table that add_handler calls with the collaborators'              *)
(* registrations can build.                                                *)
RECURSIVE TablesUpTo(_)
TablesUpTo(n) ==
    IF n = 0 THEN {<<>>}
    ELSE LET T == TablesUpTo(n - 1)
         IN T \cup {add_handler(t, r.address, r.handler) : t \in T, r \in Registrations}

Tables == TablesUpTo(Cardinality(Addresses))

(* The dispatch of the clients' messages, for every table. *)
InitDispatch ==
    /\ callbacks \in Tables
    /\ response_port = OSC_RESPONSE_PORT
    /\ remote_addr = <<"127.0.0.1", response_port>>
    /\ udp_queue = <<>>
    /\ udp_socket = "open"
    /\ tcp_server = "listening"
    /\ tcp_socket = "open"
    /\ accept_pc = "accept"
    /\ op = "init"
    /\ trace = <<>>
    /\ queue_at_start = <<>>
    /\ raised = "none"
    /\ listener_functions = <<>>
    /\ listener_objects = <<>>
    /\ hooks = {}
    /\ tvalue = [t \in Targets |-> Scalar(5)]
    /\ args = NoArgs
    /\ prev = NoCall
    /\ tcp_handlers = <<>>
    /\ conns = <<>>

NextDispatch == ArriveMessage \/ Process

SpecDispatch == InitDispatch /\ [][NextDispatch]_vars

(* A session: clients on two hosts send datagrams while one of them is     *)
(* subscribed to a property.  The traffic has undecodable bytes, an        *)
(* unknown address, a handler that sends by itself and one that returns a  *)
(* value.                                                                  *)
SessionTable == <<Reg(AddrA, "hRet"), Reg(AddrAB, "hSend")>>

SessionDatagrams ==
    { Datagram("h1", 50001, Malformed(FALSE)),
      Datagram("h1", 50001, Msg(AddrB, <<>>)),
      Datagram("h2", 50000, Msg(AddrAB, <<>>)),
      Datagram("h2", 50001, Msg(AddrA, <<7>>)) }

ArriveSession == \E d \in SessionDatagrams : Arrive(d)

SubscribeSession == \E params \in ParamTuples : StartListenOn("t1", "tempo", params)

UnsubscribeSession == \E params \in ParamTuples : StopListenOn("t1", "tempo", params)

InitSession ==
    /\ callbacks = SessionTable
    /\ response_port = OSC_RESPONSE_PORT
    /\ remote_addr = <<"127.0.0.1", response_port>>
    /\ udp_queue = <<>>
    /\ udp_socket = "open"
    /\ tcp_server = "listening"
    /\ tcp_socket = "open"
    /\ accept_pc = "accept"
    /\ op = "init"
    /\ trace = <<>>
    /\ queue_at_start = <<>>
    /\ raised = "none"
    /\ listener_functions = <<>>
    /\ listener_objects = <<>>
    /\ hooks = {}
    /\ tvalue = [t \in Targets |-> Scalar(5)]
    /\ args = NoArgs
    /\ prev = NoCall
    /\ tcp_handlers = <<>>
    /\ conns = <<>>

ChangeSession == PropertyChangedOn("t1")

NextSession ==
    ArriveSession \/ Process \/ SubscribeSession \/ UnsubscribeSession \/ ChangeSession

SpecSession == InitSession /\ [][NextSession]_vars

---------------------------------------------------------------------------
(* The TCP side channel.  The accept loop starts one worker thread per     *)
(* connection; a worker runs _handle_tcp_client, whose reads of            *)
(* self.tcp_handlers interleave with the cooperative domain.               *)

BulkRegistrations ==
    { [key |-> <<71>>, val |-> "bJson"], [key |-> <<71>>, val |-> "bText"],
      [key |-> <<71>>, val |-> "bList"], [key |-> <<71>>, val |-> "bOpaque"],
      [key |-> <<71>>, val |-> "bRaise"], [key |-> <<71>>, val |-> "bSurrogate"],
      [key |-> <<233>>, val |-> "bJson"] }

(* What a client sends: "G", " G\n", "X", "e-acute", a double quote, a bare  *)
(* newline, bytes that are not UTF-8, or nothing before closing.           *)
RequestData ==
    {<<71>>, <<32, 71, 10>>, <<88>>, <<195, 169>>, <<34>>, <<10>>, <<255>>, <<>>}

(* The tokens the workers get from these requests, the response to each   *)
(* when it is unknown, and the response of each bulk handler.              *)
Tokens == {strip(decode(data).text) : data \in {b \in RequestData : b # <<>> /\ decode(b).ok}}

UnknownRequestFrames == [token \in Tokens |-> frame(unknown_request_response(token))]

BulkHandlers == {r.val : r \in BulkRegistrations}

Responses == [h \in BulkHandlers |-> respond(h)]

Cooperative(name) ==
    /\ op' = name
    /\ trace' = <<>>
    /\ raised' = "none"
    /\ queue_at_start' = <<>>
    /\ args' = NoArgs
    /\ prev' = NoCall

AddTcpHandler ==
    \E r \in BulkRegistrations :
        /\ tcp_handlers' = Put(tcp_handlers, r.key, r.val)
        /\ Cooperative("add_tcp_handler")
        /\ UNCHANGED <<sockets, server, registry, conns>>

(* Mutant: only the address table is reset. *)
clear_handlers_callbacks_only(table, bulk) == [callbacks |-> <<>>, tcp_handlers |-> bulk]

(* clear_handlers: both dicts replaced by empty ones. *)
clear_handlers(table, bulk) == [callbacks |-> <<>>, tcp_handlers |-> <<>>]

(* The trace records which of the tables had entries. *)
ClearHandlers ==
    /\ callbacks' = clear_handlers(callbacks, tcp_handlers).callbacks
    /\ tcp_handlers' = clear_handlers(callbacks, tcp_handlers).tcp_handlers
    /\ op' = "clear_handlers"
    /\ trace' = <<Ev("clear_handlers", <<>>, <<>>, "", <<>>, NoAddr),
                  EvLog(IF callbacks # <<>> THEN "had callbacks" ELSE "no callbacks", <<>>),
                  EvLog(IF tcp_handlers # <<>> THEN "had tcp_handlers" ELSE "no tcp_handlers", <<>>)>>
    /\ raised' = "none"
    /\ queue_at_start' = <<>>
    /\ args' = NoArgs
    /\ prev' = NoCall
    /\ UNCHANGED <<sockets, remote_addr, response_port, udp_queue, registry, conns>>

Worker(i, c) ==
    /\ conns' = [conns EXCEPT ![i] = c]
    /\ UNCHANGED <<sockets, server, registry, tcp_handlers, op, trace, queue_at_start, raised, args, prev>>

(* client, addr = self.tcp_server.accept() and client_thread.start(). *)
TcpAccept ==
    /\ tcp_server = "listening"
    /\ accept_pc = "accept"
    /\ Len(conns) < MaxConns
    /\ ~Busy(conns, tcp_thread)
    /\ conns' = Append(conns, [Conn("recv", <<>>, "", <<>>, "", FALSE)
                                 EXCEPT !.thread = client_thread(Len(conns) + 1)])
    /\ UNCHANGED <<sockets, server, registry, tcp_handlers, op, trace, queue_at_start, raised, args, prev>>

(* data = client.recv(1024) and its decoding. *)
TcpRecvOn(i) ==
    /\ conns[i].pc = "recv"
    /\ Runnable(conns, i)
    /\ LET c == [conns[i] EXCEPT !.read = IF @ = "no" THEN "once" ELSE "again"]
       IN \/ \E data \in RequestData :
                IF data = <<>> THEN Worker(i, Closed(c, "empty", <<>>))
                ELSE IF ~decode(data).ok THEN Worker(i, Closed(c, "decode_error", <<>>))
                ELSE Worker(i, [c EXCEPT !.pc = "lookup",
                                         !.request = strip(decode(data).text)])
          \/ \E e \in {"timeout", "reset"} : Worker(i, Closed(c, e, <<>>))

TcpRecv == \E i \in 1..Len(conns) : TcpRecvOn(i)

(* AbletonOSCHandler.tcp_handlers: every collaborator has a table of its   *)
(* own, which only its own add_tcp_handler writes; no collaborator calls   *)
(* it.                                                                     *)
handler_tcp_handlers == <<>>

(* self.tcp_handlers in the worker of connection c: self is the object     *)
(* whose listener accepted the connection.                                 *)
TableOf(c, bulk) == IF c.listener = "OSCServer" THEN bulk ELSE handler_tcp_handlers

(* The accept loop of a collaborator's own listener on the same port. *)
TcpAcceptHandler ==
    /\ Len(conns) < MaxConns
    /\ conns' = Append(conns, [Conn("recv", <<>>, "", <<>>, "", FALSE)
                                 EXCEPT !.thread = client_thread(Len(conns) + 1),
                                        !.listener = "AbletonOSCHandler"])
    /\ UNCHANGED <<sockets, server, registry, tcp_handlers, op, trace, queue_at_start, raised, args, prev>>

(* if request in self.tcp_handlers: ... else: the Unknown request error. *)
tcp_lookup(c, bulk) ==
    IF InDict(bulk, c.request)
    THEN [c EXCEPT !.pc = "fetch"]
    ELSE Closed(c, "miss", UnknownRequestFrames[c.request])

TcpLookupOn(i) ==
    /\ conns[i].pc = "lookup"
    /\ Runnable(conns, i)
    /\ Worker(i, tcp_lookup(conns[i], TableOf(conns[i], tcp_handlers)))

TcpLookup == \E i \in 1..Len(conns) : TcpLookupOn(i)

(* handler = self.tcp_handlers[request]: a KeyError if the entry is gone. *)
TcpFetchOn(i) ==
    /\ conns[i].pc = "fetch"
    /\ Runnable(conns, i)
    /\ IF InDict(TableOf(conns[i], tcp_handlers), conns[i].request)
       THEN Worker(i, [conns[i] EXCEPT !.pc = "call",
                                       !.handler = Get(TableOf(conns[i], tcp_handlers), conns[i].request)])
       ELSE Worker(i, Closed(conns[i], "key_error", <<>>))

TcpFetch == \E i \in 1..Len(conns) : TcpFetchOn(i)

(* result = handler(), the response, and client.close(). *)
TcpRespondOn(i) ==
    /\ conns[i].pc = "call"
    /\ Runnable(conns, i)
    /\ LET r == Responses[conns[i].handler]
       IN Worker(i, Closed([conns[i] EXCEPT !.invoked = TRUE], r.path, r.out))

TcpRespond == \E i \in 1..Len(conns) : TcpRespondOn(i)

(* The registrations and the full reset of both tables. *)
NextReset == AddHandler \/ AddTcpHandler \/ ClearHandlers

SpecReset == Init /\ [][NextReset]_vars

NextTcp ==
    AddTcpHandler \/ ClearHandlers \/ TcpAccept \/ TcpRecv \/ TcpLookup \/ TcpFetch \/ TcpRespond

SpecTcp == Init /\ [][NextTcp]_vars

(* Every worker thread keeps running: recv returns within its timeout and  *)
(* the other steps do not wait for anything.                               *)
BulkStartupTables ==
    { <<[key |-> <<71>>, val |-> "bJson"]>>,
      <<[key |-> <<71>>, val |-> "bText"], [key |-> <<233>>, val |-> "bJson"]>>,
      <<[key |-> <<71>>, val |-> "bList"]>>,
      <<[key |-> <<71>>, val |-> "bOpaque"]>>,
      <<[key |-> <<233>>, val |-> "bJson"], [key |-> <<71>>, val |-> "bRaise"]>> }

InitTcpLive ==
    /\ callbacks = <<>>
    /\ response_port = OSC_RESPONSE_PORT
    /\ remote_addr = <<"127.0.0.1", response_port>>
    /\ udp_queue = <<>>
    /\ udp_socket = "open"
    /\ tcp_server = "listening"
    /\ tcp_socket = "open"
    /\ accept_pc = "accept"
    /\ op = "init"
    /\ trace = <<>>
    /\ queue_at_start = <<>>
    /\ raised = "none"
    /\ listener_functions = <<>>
    /\ listener_objects = <<>>
    /\ hooks = {}
    /\ tvalue = [t \in Targets |-> Scalar(5)]
    /\ args = NoArgs
    /\ prev = NoCall
    /\ tcp_handlers \in BulkStartupTables
    /\ conns = <<>>

NextTcpLive ==
    ClearHandlers \/ TcpAccept \/ TcpRecv \/ TcpLookup \/ TcpFetch \/ TcpRespond

SpecTcpLive ==
    /\ InitTcpLive /\ [][NextTcpLive]_vars
    /\ WF_vars(TcpRecv) /\ WF_vars(TcpLookup) /\ WF_vars(TcpFetch) /\ WF_vars(TcpRespond)

(* The listener of OSCServer and the listener a collaborator opens on the  *)
(* same port, after the collaborators have registered their bulk handlers  *)
(* with the server.                                                        *)
NextListeners ==
    TcpAccept \/ TcpAcceptHandler \/ TcpRecv \/ TcpLookup \/ TcpFetch \/ TcpRespond

SpecListeners == InitTcpLive /\ [][NextListeners]_vars

(* The accept loop step by step, and shutdown() as the two statements     *)
(* that concern it: tcp_server.close() and self.tcp_server = None.  A      *)
(* close() from another thread may or may not end a pending accept(): the  *)
(* call can raise, or stay pending and return the next connection.         *)
AcceptStep(pc) ==
    /\ accept_pc' = pc
    /\ UNCHANGED <<udp_socket, tcp_server, tcp_socket, server, registry, tcp_handlers,
                   op, trace, queue_at_start, raised, args, prev>>

(* accept() returns a client and client_thread.start(). *)
AcceptReturns ==
    /\ accept_pc = "accept"
    /\ Len(conns) < MaxConns
    /\ ~Busy(conns, tcp_thread)
    /\ conns' = Append(conns, [Conn("recv", <<>>, "", <<>>, "", FALSE)
                                 EXCEPT !.thread = client_thread(Len(conns) + 1)])
    /\ AcceptStep("retry")

(* The pending accept() raises because the socket was closed. *)
AcceptRaises ==
    /\ accept_pc = "accept"
    /\ tcp_socket = "closed"
    /\ AcceptStep("except") /\ UNCHANGED conns

(* except Exception: if not self.tcp_server: break. *)
AcceptExcept ==
    /\ accept_pc = "except"
    /\ AcceptStep(IF tcp_server = "none" THEN "done" ELSE "retry") /\ UNCHANGED conns

(* self.tcp_server.accept(): AttributeError on None, OSError on a closed   *)
(* socket, else the call is pending.                                       *)
AcceptCalls ==
    /\ accept_pc = "retry"
    /\ AcceptStep(IF tcp_server = "none" \/ tcp_socket = "closed" THEN "except" ELSE "accept")
    /\ UNCHANGED conns

(* shutdown() up to self.tcp_server.close(). *)
ShutdownClose ==
    \E sendto_fails \in BOOLEAN :
        LET r == close_udp(send_disconnect([trace |-> <<>>, err |-> "none", remote |-> remote_addr,
                                            udp |-> udp_socket, tcp |-> tcp_server], sendto_fails))
        IN /\ tcp_server = "listening"
           /\ tcp_socket = "open"
           /\ udp_socket' = r.udp
           /\ tcp_socket' = "closed"
           /\ trace' = Append(r.trace, EvLog("close", <<"tcp">>))
           /\ raised' = r.err
           /\ op' = "shutdown_close"
           /\ queue_at_start' = <<>>
           /\ UNCHANGED <<tcp_server, accept_pc, server, registry, tcp, args, prev>>

(* self.tcp_server = None, and shutdown() returns. *)
ShutdownClear ==
    /\ tcp_server = "listening"
    /\ tcp_socket = "closed"
    /\ tcp_server' = "none"
    /\ op' = "shutdown_return"
    /\ UNCHANGED <<udp_socket, tcp_socket, accept_pc, server, registry, tcp,
                   trace, queue_at_start, raised, args, prev>>

NextAccept ==
    \/ AcceptReturns \/ AcceptRaises \/ AcceptExcept \/ AcceptCalls
    \/ ShutdownClose \/ ShutdownClear
    \/ TcpRecv \/ TcpLookup \/ TcpFetch \/ TcpRespond

(* The accept thread is scheduled fairly and shutdown() runs on; whether   *)
(* a client connects, and whether a pending accept() is ended by close(),  *)
(* is not in the program's hands.                                          *)
SpecAccept ==
    /\ InitTcpLive /\ [][NextAccept]_vars
    /\ WF_vars(AcceptExcept) /\ WF_vars(AcceptCalls) /\ WF_vars(ShutdownClear)

(* Servers constructed with the default reply port and with another one:  *)
(* OSCServer(remote_addr = ('127.0.0.1', port)).                           *)
ReplyPorts == {OSC_RESPONSE_PORT, 9001}

InitPorts ==
    /\ callbacks = SessionTable
    /\ response_port \in ReplyPorts
    /\ remote_addr = <<"127.0.0.1", response_port>>
    /\ udp_queue = <<>>
    /\ udp_socket = "open"
    /\ tcp_server = "listening"
    /\ tcp_socket = "open"
    /\ accept_pc = "accept"
    /\ op = "init"
    /\ trace = <<>>
    /\ queue_at_start = <<>>
    /\ raised = "none"
    /\ listener_functions = <<>>
    /\ listener_objects = <<>>
    /\ hooks = {}
    /\ tvalue = [t \in Targets |-> Scalar(5)]
    /\ args = NoArgs
    /\ prev = NoCall
    /\ tcp_handlers = <<>>
    /\ conns = <<>>

NextPorts == ArriveSession \/ Process

SpecPorts == InitPorts /\ [][NextPorts]_vars

(* The UDP tick loop and the TCP side channel together: datagrams arrive   *)
(* while a client has connected and not yet sent its token.                *)
ServeDatagrams == { Datagram("h1", 50001, Msg(AddrA, <<7>>)) }

Stalled(cs, i) == cs[i].pc = "recv" /\ cs[i].read = "no"

ArriveDuringStall ==
    /\ \E i \in 1..Len(conns) : Stalled(conns, i)
    /\ \E d \in ServeDatagrams : Arrive(d)

InitServe ==
    /\ callbacks = SessionTable
    /\ response_port = OSC_RESPONSE_PORT
    /\ remote_addr = <<"127.0.0.1", response_port>>
    /\ udp_queue = <<>>
    /\ udp_socket = "open"
    /\ tcp_server = "listening"
    /\ tcp_socket = "open"
    /\ accept_pc = "accept"
    /\ op = "init"
    /\ trace = <<>>
    /\ queue_at_start = <<>>
    /\ raised = "none"
    /\ listener_functions = <<>>
    /\ listener_objects = <<>>
    /\ hooks = {}
    /\ tvalue = [t \in Targets |-> Scalar(5)]
    /\ args = NoArgs
    /\ prev = NoCall
    /\ tcp_handlers \in BulkStartupTables
    /\ conns = <<>>

NextServe ==
    ArriveDuringStall \/ Process \/ TcpAccept \/ TcpRecv \/ TcpLookup \/ TcpFetch \/ TcpRespond

SpecServe == InitServe /\ [][NextServe]_vars

---------------------------------------------------------------------------
(* Reading the trace of a process() call. *)

Dispatches == {i \in 1..Len(trace) : trace[i].ev = "dispatch"}

(* The events of dispatch i: those up to the next dispatch or receive. *)
Segment(i) ==
    {j \in (i + 1)..Len(trace) :
        \A k \in (i + 1)..j : trace[k].ev \notin {"dispatch", "recv"}}

Invokes(i) == {j \in Segment(i) : trace[j].ev = "invoke"}

(* The replies of the dispatcher: it always names the destination. *)
Sends(i) == {j \in Segment(i) : trace[j].ev = "send" /\ trace[j].h = "override"}

(* The sender of the datagram that dispatch i belongs to. *)
SenderOf(i) ==
    LET r == CHOOSE k \in 1..i :
                 /\ trace[k].ev = "recv"
                 /\ \A m \in (k + 1)..i : trace[m].ev # "recv"
    IN trace[r].peer

ExactDispatches == {i \in Dispatches : HasKey(callbacks, trace[i].address)}

WildcardDispatches ==
    {i \in Dispatches : ~HasKey(callbacks, trace[i].address) /\ "*" \in Range(trace[i].address)}

---------------------------------------------------------------------------
(* C1: a message whose address has an exact registration invokes exactly   *)
(* that registered handler, once, and no other handler, whatever else is   *)
(* registered and also when the address itself contains "*".               *)
C1_ExactRouting ==
    \A i \in ExactDispatches :
        /\ Cardinality(Invokes(i)) = 1
        /\ \A j \in Invokes(i) :
               /\ trace[j].key = trace[i].address
               /\ trace[j].h = Lookup(callbacks, trace[i].address)

(* An exactly registered address containing "*" dispatched while other     *)
(* registrations that the pattern would match are present.                 *)
C1_Witness ==
    \E i \in ExactDispatches :
        /\ trace[i].address = AddrStar
        /\ HasKey(callbacks, AddrA) /\ HasKey(callbacks, AddrB)
        /\ Invokes(i) # {}

(* C2: a datagram from (H, any source port) whose address has an exact     *)
(* registration returning a tuple T gets exactly one reply, sent to        *)
(* (H, reply port), at the request's address, with arguments T in order.   *)
C2_ExactReply ==
    \A i \in ExactDispatches :
        LET o == Outcome(Lookup(callbacks, trace[i].address))
        IN (o.exc = "none" /\ ~o.none) =>
              /\ Cardinality(Sends(i)) = 1
              /\ \A j \in Sends(i) :
                     /\ trace[j].peer = <<SenderOf(i)[1], response_port>>
                     /\ trace[j].address = trace[i].address
                     /\ trace[j].params = o.rv

C2_Witness ==
    \E i \in ExactDispatches :
        /\ SenderOf(i) = <<"h2", 50001>>
        /\ \E j \in Sends(i) : trace[j].params = <<3, 1, 2>> /\ trace[j].peer[1] = "h2"

(* C3: in a wildcard fan-out, a matching handler that raises ValueError or  *)
(* AttributeError is skipped with no reply for it, and the fan-out goes on:*)
(* every matching handler that no other kind of error cuts off is invoked  *)
(* once, and its reply, if it returns a tuple, is sent.                    *)
Matching(i) ==
    {k \in 1..Len(callbacks) : re_match(Regex(trace[i].address), callbacks[k].address)}

Skipped(k) == Outcome(callbacks[k].handler).exc \in {"ValueError", "AttributeError"}

Fatal(k) == Outcome(callbacks[k].handler).exc \notin {"none", "ValueError", "AttributeError"}

Replies(k) ==
    LET o == Outcome(callbacks[k].handler) IN o.exc = "none" /\ ~o.none

KeyIndex(a) == CHOOSE k \in 1..Len(callbacks) : callbacks[k].address = a

C3_FanOutSkips ==
    \A i \in WildcardDispatches :
        LET reached == {k \in Matching(i) : \A m \in Matching(i) : m < k => ~Fatal(m)}
        IN /\ \A k \in reached :
                  LET js == {j \in Invokes(i) : trace[j].key = callbacks[k].address}
                  IN /\ Cardinality(js) = 1
                     /\ \A j \in js :
                            /\ trace[j].h = callbacks[k].handler
                            /\ Skipped(k) => (j + 1) \notin Sends(i)
                            /\ Replies(k) =>
                                   /\ (j + 1) \in Sends(i)
                                   /\ trace[j + 1].params = Outcome(callbacks[k].handler).rv
                                   /\ trace[j + 1].peer = <<SenderOf(i)[1], response_port>>
           /\ Cardinality(Sends(i)) = Cardinality({k \in reached : Replies(k)})

(* A fan-out that skips a ValueError and an AttributeError and then sends  *)
(* the reply of a third matching handler.                                  *)
C3_Witness ==
    \E i \in WildcardDispatches :
        \E j1, j2, j3 \in Invokes(i) :
            /\ j1 < j2 /\ j2 < j3
            /\ trace[j1].h = "hValueError"
            /\ trace[j2].h = "hAttributeError"
            /\ trace[j3].h = "hRet"
            /\ (j3 + 1) \in Sends(i)

---------------------------------------------------------------------------
(* Reading the trace of a process() call, datagram by datagram. *)

Receives == {i \in 1..Len(trace) : trace[i].ev = "recv"}

(* The datagram that receive r took from the socket. *)
DatagramOf(r) == queue_at_start[Cardinality({k \in Receives : k <= r})]

(* The events of the datagram received at r. *)
DatagramEvents(r) ==
    LET later == {k \in Receives : k > r}
        last == IF later = {} THEN Len(trace)
                ELSE (CHOOSE k \in later : \A m \in later : k <= m) - 1
    IN SubSeq(trace, r + 1, last)

IsDispatch(e) == e.ev = "dispatch"

(* A handler's error left the dispatch of the datagram received at r. *)
Escaped(r) ==
    \E k \in 1..Len(DatagramEvents(r)) :
        /\ DatagramEvents(r)[k].ev = "log"
        /\ DatagramEvents(r)[k].h \in {"ValueError", "AttributeError", "RuntimeError"}

(* The messages of a bundle in encoded, depth-first order. *)
RECURSIVE Flat(_)
Flat(items) ==
    IF items = <<>> THEN <<>>
    ELSE (IF Head(items).magic THEN Flat(Head(items).items) ELSE <<Head(items)>>)
         \o Flat(Tail(items))

(* C9: the messages of a received bundle, nested bundles included, are     *)
(* dispatched one by one in the encoded depth-first order (all of them     *)
(* when every invoked handler returns), and each message whose handler     *)
(* returns a value gets its own reply before the next message is           *)
(* dispatched.                                                             *)
C9_BundleOrder ==
    \A r \in Receives :
        LET data == DatagramOf(r).data
            ds == SelectSeq(DatagramEvents(r), IsDispatch)
            fl == Flat(data.items)
        IN (data.magic /\ data.valid) =>
              /\ Len(ds) <= Len(fl)
              /\ \A k \in 1..Len(ds) :
                     /\ ds[k].address = fl[k].address
                     /\ ds[k].params = fl[k].params
              /\ ~Escaped(r) => Len(ds) = Len(fl)
              /\ \A i \in ExactDispatches :
                     (i > r /\ i <= r + Len(DatagramEvents(r)) /\ Replies(KeyIndex(trace[i].address))) =>
                        /\ Cardinality(Sends(i)) = 1
                        /\ \A j \in Sends(i) :
                               /\ trace[j].address = trace[i].address
                               /\ trace[j].params = Outcome(Lookup(callbacks, trace[i].address)).rv

(* The nested bundle dispatched in full, with the replies of its first and *)
(* its last message.                                                       *)
C9_Witness ==
    \E r \in Receives :
        LET ds == SelectSeq(DatagramEvents(r), IsDispatch)
        IN /\ Len(ds) = 4
           /\ <<ds[1].params, ds[2].params, ds[3].params, ds[4].params>> = <<<<1>>, <<2>>, <<3>>, <<4>>>>
           /\ \E i, j \in ExactDispatches :
                  /\ r < i /\ i < j
                  /\ trace[i].params = <<2>> /\ trace[j].params = <<4>>
                  /\ Sends(i) # {} /\ Sends(j) # {}

(* C10: when a call of process() returns, every datagram that was queued   *)
(* when it started has been received, in arrival order, and none is left   *)
(* on the socket, whatever the handlers did.                               *)
C10_QueueDrained ==
    op = "process" =>
        /\ udp_queue = <<>>
        /\ Cardinality(Receives) = Len(queue_at_start)
        /\ \A r \in Receives : trace[r].peer = <<DatagramOf(r).host, DatagramOf(r).port>>

---------------------------------------------------------------------------
(* C4: each key (property, params) has at most one change-hook installed   *)
(* by the registry that is still active on any target object, also after   *)
(* a startListen repeated for the key with another target object.          *)
HooksOf(prop, params) == {h \in hooks : h.fn.prop = prop /\ h.fn.params = params}

C4_OneHookPerKey ==
    \A prop \in Props, params \in ParamTuples : Cardinality(HooksOf(prop, params)) <= 1

(* C5, as claimed: two consecutive subscriptions to the same key with the  *)
(* same target send one immediate emission between them.                   *)
Resubscribed ==
    /\ op = "start_listen" /\ raised = "none"
    /\ prev.op = "start_listen" /\ prev.args = args

C5_OneEmissionForTwoCalls == Resubscribed => prev.sends + CountSends(trace) = 1

(* C5, amended: every subscription sends exactly one immediate emission,   *)
(* so two consecutive subscriptions to the same key send two, one each.    *)
C5_OneEmissionPerCall ==
    /\ (op = "start_listen" /\ raised = "none") =>
           /\ CountSends(trace) = 1
           /\ trace[Len(trace)].ev = "send"
           /\ trace[Len(trace)].params = args.params \o tvalue[args.target].v
    /\ Resubscribed => prev.sends + CountSends(trace) = 2

C5_Witness == Resubscribed /\ Cardinality(HooksOf(args.prop, args.params)) = 1

(* C6: stopListen on a key that is not Subscribed does not raise, removes  *)
(* no hook, sends nothing and leaves the registry as it was.               *)
C6_StopUnsubscribedIsNoop ==
    [][(op' = "stop_listen" /\ ~InDict(listener_functions, <<args'.prop, args'.params>>)) =>
          /\ raised' = "none"
          /\ hooks' = hooks
          /\ listener_functions' = listener_functions
          /\ listener_objects' = listener_objects
          /\ CountSends(trace') = 0]_vars

(* A stopListen of a key that is not Subscribed, made while another key is *)
(* Subscribed and hooked.                                                  *)
C6_Witness ==
    /\ op = "stop_listen"
    /\ ~InDict(listener_functions, <<args.prop, args.params>>)
    /\ trace = <<EvLog("No listener function found", <<>>)>>
    /\ hooks # {} /\ listener_functions # <<>>


---------------------------------------------------------------------------
(* Reading what a TCP client received. *)

BigEndian(b) == ((b[1] * 256 + b[2]) * 256 + b[3]) * 256 + b[4]

Prefix(out) == BigEndian(SubSeq(out, 1, 4))
Payload(out) == SubSeq(out, 5, Len(out))

HexVal(c) == IF c >= 48 /\ c <= 57 THEN c - 48
             ELSE IF c >= 97 /\ c <= 102 THEN c - 87
             ELSE IF c >= 65 /\ c <= 70 THEN c - 55
             ELSE 0 - 1

Hex4(t) == ((HexVal(t[1]) * 16 + HexVal(t[2])) * 16 + HexVal(t[3])) * 16 + HexVal(t[4])

IsHex4(t) == Len(t) >= 4 /\ \A i \in 1..4 : HexVal(t[i]) >= 0

(* The text a JSON string body stands for, as a JSON parser reads it. *)
PlainRun(t) ==
    LET other == {k \in 1..Len(t) : t[k] = 34 \/ t[k] = 92 \/ t[k] < 32}
    IN IF other = {} THEN Len(t) ELSE (CHOOSE k \in other : \A j \in other : k <= j) - 1

RECURSIVE Unescape(_)
Unescape(t) ==
    IF t = <<>> THEN [ok |-> TRUE, text |-> <<>>]
    ELSE IF t[1] = 34 \/ t[1] < 32 THEN [ok |-> FALSE, text |-> <<>>]
    ELSE IF t[1] # 92
    THEN LET n == PlainRun(t)
             r == Unescape(SubSeq(t, n + 1, Len(t)))
         IN [ok |-> r.ok, text |-> SubSeq(t, 1, n) \o r.text]
    ELSE IF Len(t) < 2 THEN [ok |-> FALSE, text |-> <<>>]
    ELSE IF t[2] = 117
    THEN LET h == SubSeq(t, 3, Len(t))
         IN IF ~IsHex4(h) THEN [ok |-> FALSE, text |-> <<>>]
            ELSE LET u == Hex4(h)
                     rest == SubSeq(h, 5, Len(h))
                     pair == /\ u >= 55296 /\ u <= 56319
                             /\ Len(rest) >= 6 /\ rest[1] = 92 /\ rest[2] = 117
                             /\ IsHex4(SubSeq(rest, 3, 6))
                             /\ Hex4(SubSeq(rest, 3, 6)) >= 56320
                             /\ Hex4(SubSeq(rest, 3, 6)) <= 57343
                     cp == IF pair
                           THEN 65536 + (u - 55296) * 1024 + (Hex4(SubSeq(rest, 3, 6)) - 56320)
                           ELSE u
                     r == Unescape(IF pair THEN SubSeq(rest, 7, Len(rest)) ELSE rest)
                IN [ok |-> r.ok, text |-> <<cp>> \o r.text]
    ELSE LET c == CASE t[2] = 34 -> 34 [] t[2] = 92 -> 92 [] t[2] = 47 -> 47
                    [] t[2] = 110 -> 10 [] t[2] = 114 -> 13 [] t[2] = 116 -> 9
                    [] t[2] = 98 -> 8 [] t[2] = 102 -> 12 [] OTHER -> 0 - 1
             r == Unescape(SubSeq(t, 3, Len(t)))
         IN [ok |-> c >= 0 /\ r.ok, text |-> <<c>> \o r.text]

ErrorObjectHead == <<123, 34>> \o StrError \o <<34, 58, 32, 34>>
ErrorObjectTail == <<34, 125>>

(* The message of a JSON text of the shape {"error": "<message>"}. *)
ErrorMessage(text) ==
    LET n == Len(text)
        h == Len(ErrorObjectHead)
    IN IF /\ n >= h + 2
          /\ SubSeq(text, 1, h) = ErrorObjectHead
          /\ SubSeq(text, n - 1, n) = ErrorObjectTail
       THEN Unescape(SubSeq(text, h + 1, n - 2))
       ELSE [ok |-> FALSE, text |-> <<>>]

(* One frame: four bytes of length and exactly that many bytes after them. *)
OneFrame(out) == Len(out) >= 4 /\ Prefix(out) = Len(out) - 4

ConnIds == 1..Len(conns)

(* C7: a request whose token is not in the bulk-handler table is answered  *)
(* with one length-prefixed JSON object {"error": "Unknown request:        *)
(* <token>"}, no bulk handler is invoked, and the connection is closed.    *)
C7_UnknownToken ==
    \A i \in ConnIds :
        conns[i].path = "miss" =>
            /\ conns[i].pc = "closed"
            /\ ~conns[i].invoked
            /\ OneFrame(conns[i].out)
            /\ decode(Payload(conns[i].out)).ok
            /\ ErrorMessage(decode(Payload(conns[i].out)).text)
                   = [ok |-> TRUE, text |-> StrUnknownRequest \o conns[i].request]

(* A token with a multi-byte character and a token that needs escaping     *)
(* have both been refused, while a handler was registered for another one. *)
C7_Witness ==
    /\ tcp_handlers # <<>>
    /\ \E i, j \in ConnIds :
          /\ conns[i].path = "miss" /\ conns[i].request = <<233>>
          /\ conns[j].path = "miss" /\ conns[j].request = <<34>>

(* C8: for every payload a registered bulk handler produces, the 4-byte    *)
(* big-endian length prefix equals the number of UTF-8 bytes that follow.  *)
C8_LengthPrefix ==
    \A i \in ConnIds :
        conns[i].path = "hit" => OneFrame(conns[i].out)

---------------------------------------------------------------------------
(* The sends that took the default destination. *)
DefaultSends == {j \in 1..Len(trace) : trace[j].ev = "send" /\ trace[j].h = "default"}

(* The receive of the datagram during whose dispatch event j happened. *)
ReceiveBefore(j) ==
    CHOOSE r \in Receives : r < j /\ \A k \in Receives : k < j => k <= r

(* C11: the default destination is set to the host of a datagram's sender  *)
(* before the datagram is dispatched, so every send() without a            *)
(* destination made during the dispatch goes to that host, never to the    *)
(* host of an earlier sender.                                              *)
C11_ReplyTargetFirst ==
    op = "process" =>
        /\ \A j \in DefaultSends :
               /\ \E r \in Receives : r < j
               /\ trace[j].peer = <<trace[ReceiveBefore(j)].peer[1], OSC_RESPONSE_PORT>>
        /\ Receives # {} =>
               remote_addr = <<queue_at_start[Cardinality(Receives)].host, OSC_RESPONSE_PORT>>

(* One process() call in which callbacks sent to two different hosts, each *)
(* the sender of the datagram being dispatched.                            *)
C11_Witness ==
    /\ op = "process"
    /\ \E i, j \in DefaultSends :
          /\ i < j
          /\ trace[i].peer[1] = "h2" /\ trace[j].peer[1] = "h1"
          /\ ReceiveBefore(i) # ReceiveBefore(j)

---------------------------------------------------------------------------
(* C12: process() never lets an error reach its caller, whatever a handler *)
(* raises, whatever the decoder rejects and whatever socket error occurs,  *)
(* so the tick that called it goes on to schedule the next tick.           *)
C12_ProcessReturns ==
    op = "process" =>
        /\ raised = "none"
        /\ trace # <<>>
        /\ trace[Len(trace)] = EvLog("schedule_message", <<>>)

LoggedErrors == {trace[i].h : i \in {k \in 1..Len(trace) : trace[k].ev = "log"}}

(* A tick that met undecodable bytes and then a handler's error, and one   *)
(* that met undecodable bytes and then a socket error.                     *)
C12_Witness == op = "process" /\ {"ParseError", "RuntimeError"} \subseteq LoggedErrors

C12_WitnessSocket ==
    /\ op = "process"
    /\ "ParseError" \in LoggedErrors
    /\ LoggedErrors \cap {"ECONNRESET", "EBADF"} # {}
---------------------------------------------------------------------------
(* C13: shutdown() makes one attempt to send the disconnect notification   *)
(* to the default destination, before the UDP socket is closed, so that    *)
(* the notification is sent at most once however often shutdown() is       *)
(* called; it then closes the UDP socket and the TCP listening socket, and *)
(* never raises, also when the send fails and on a second call.            *)
SendAttempt(e) == e.ev = "send" \/ (e.ev = "log" /\ e.h = "Error sending disconnect signal")

C13_Shutdown ==
    [][op' = "shutdown" =>
          /\ raised' = "none"
          /\ udp_socket' = "closed"
          /\ tcp_server' = "none"
          /\ Len(trace') >= 2
          /\ SendAttempt(trace'[1])
          /\ trace'[2] = EvLog("close", <<"udp">>)
          /\ \A i \in 2..Len(trace') : ~SendAttempt(trace'[i])
          /\ trace'[1].ev = "send" =>
                 /\ udp_socket = "open"
                 /\ trace'[1].address = AddrDisconnected
                 /\ trace'[1].params = <<1>>
                 /\ trace'[1].peer = remote_addr
          /\ tcp_server = "listening" => trace'[Len(trace')] = EvLog("close", <<"tcp">>)
    ]_vars

(* A shutdown that notified the host of the last datagram's sender and     *)
(* closed both sockets, and a second shutdown.                             *)
C13_Witness ==
    /\ op = "shutdown"
    /\ Len(trace) = 3
    /\ trace[1].ev = "send" /\ trace[1].peer = <<"h2", OSC_RESPONSE_PORT>>

C13_WitnessSecondCall ==
    op = "shutdown" /\ trace[1] = EvLog("Error sending disconnect signal", <<"EBADF">>)

---------------------------------------------------------------------------
(* C14: every add_handler(address, handler) leaves the table mapping the   *)
(* address to that handler, with one entry for it, and every other address *)
(* as it was; so the table always holds the most recent registration of    *)
(* each address, and registering a pair again changes nothing.             *)
SameEntry(t1, t2, a) ==
    /\ HasKey(t1, a) = HasKey(t2, a)
    /\ HasKey(t1, a) => Lookup(t1, a) = Lookup(t2, a)

C14_LastRegistrationWins ==
    [][op' = "add_handler" =>
          LET e == trace'[1]
          IN /\ Cardinality({i \in 1..Len(callbacks') : callbacks'[i].address = e.address}) = 1
             /\ Lookup(callbacks', e.address) = e.h
             /\ \A a \in Addresses \ {e.address} : SameEntry(callbacks', callbacks, a)
             /\ add_handler(callbacks', e.address, e.h) = callbacks'
             /\ (HasKey(callbacks, e.address) /\ Lookup(callbacks, e.address) = e.h)
                    => callbacks' = callbacks
    ]_vars

(* The address registered first has been registered again, after another   *)
(* address, with the handler that is not the first of its universe.        *)
C14_Witness ==
    /\ op = "add_handler"
    /\ trace[1].address = AddrA /\ trace[1].h = "hRuntimeError"
    /\ Len(callbacks) >= 3
    /\ callbacks[1] = Reg(AddrA, "hRuntimeError")

---------------------------------------------------------------------------
(* C15: clear_handlers() leaves the address table and the bulk-handler     *)
(* table empty; while they are empty every UDP message with a              *)
(* wildcard-free address is treated as unknown and every TCP token gets    *)
(* the Unknown-request error.                                              *)
Blank == [trace |-> <<>>, err |-> "none", remote |-> remote_addr]

WildcardFree == {d \in MessageDatagrams : "*" \notin Range(d.data.address)}

TreatedAsUnknown(d) ==
    process_message(Blank, d.data, <<d.host, d.port>>)
        = [Blank EXCEPT !.trace = <<EvDispatch(d.data), EvLog("unknown", d.data.address)>>]

Refused(token) ==
    LET c == tcp_lookup(Conn("lookup", token, "", <<>>, "", FALSE), tcp_handlers)
    IN /\ c.pc = "closed" /\ c.path = "miss" /\ ~c.invoked
       /\ OneFrame(c.out)
       /\ ErrorMessage(decode(Payload(c.out)).text)
              = [ok |-> TRUE, text |-> StrUnknownRequest \o token]

C15_ClearedTables ==
    /\ op = "clear_handlers" => (callbacks = <<>> /\ tcp_handlers = <<>>)
    /\ callbacks = <<>> => \A d \in WildcardFree : TreatedAsUnknown(d)
    /\ tcp_handlers = <<>> => \A token \in Tokens : Refused(token)

(* A clear_handlers() that emptied two tables that both had entries. *)
C15_Witness ==
    /\ op = "clear_handlers"
    /\ trace[2] = EvLog("had callbacks", <<>>)
    /\ trace[3] = EvLog("had tcp_handlers", <<>>)

(* A token is registered again after the reset and is no longer refused. *)
C15_WitnessRegisteredAgain ==
    /\ op = "add_tcp_handler"
    /\ \E token \in Tokens : ~Refused(token)

---------------------------------------------------------------------------
(* C16: after _clear_listeners returns no key is subscribed: the registry  *)
(* is empty, no hook that the registry installed is left on any target,    *)
(* and so a later change of a target makes this registry send nothing.     *)
C16_ClearAll ==
    /\ op = "clear_listeners" =>
           /\ raised = "none"
           /\ listener_functions = <<>>
           /\ listener_objects = <<>>
           /\ hooks = {}
    /\ (op = "property_changed" /\ listener_functions = <<>>) => CountSends(trace) = 0

---------------------------------------------------------------------------
(* C17: every accepted TCP connection is closed by the server, after one   *)
(* read of a request and at most one response, on every path: token found, *)
(* token unknown, handler failure, read timeout, peer reset and peer       *)
(* closing without sending.                                                *)
OneShot(c) ==
    /\ c.read # "again"
    /\ c.responses <= 1
    /\ c.pc = "closed" => c.read = "once"
    /\ c.pc # "closed" => c.responses = 0

C17_ClosedAfterOneCycle ==
    /\ [](\A i \in ConnIds : OneShot(conns[i]))
    /\ \A i \in 1..MaxConns :
           [](Len(conns) >= i => <>(Len(conns) >= i /\ conns[i].pc = "closed"))

PathsClosed == {conns[i].path : i \in {k \in ConnIds : conns[k].pc = "closed"}}

(* Closed connections on a hit and on a read timeout, and on two more of   *)
(* the paths for the other connections of a behaviour.                     *)
C17_Witness ==
    /\ Len(conns) = MaxConns
    /\ \A i \in ConnIds : conns[i].pc = "closed"
    /\ {"hit", "timeout"} \subseteq PathsClosed

C17_WitnessFailures ==
    /\ \A i \in ConnIds : conns[i].pc = "closed"
    /\ {"handler_error", "reset"} \subseteq PathsClosed

C17_WitnessRefusals ==
    /\ \A i \in ConnIds : conns[i].pc = "closed"
    /\ {"miss", "empty"} \subseteq PathsClosed

---------------------------------------------------------------------------
(* C18, as claimed: every reply made from a handler's returned tuple is    *)
(* sent at the address the request used, in an exact dispatch and in a     *)
(* wildcard fan-out.                                                       *)
C18_ReplyAtRequestAddress ==
    \A i \in Dispatches : \A j \in Sends(i) : trace[j].address = trace[i].address

(* The call whose returned tuple reply j carries. *)
InvokeBefore(i, j) ==
    CHOOSE k \in Invokes(i) : k < j /\ \A m \in Invokes(i) : m < j => m <= k

(* C18, amended: a reply of an exact dispatch is sent at the address the   *)
(* request used; a reply of a wildcard fan-out is sent at the registered   *)
(* address of the handler that returned it, which the request's pattern    *)
(* matches.                                                                *)
C18_ReplyAtRegisteredAddress ==
    /\ \A i \in ExactDispatches : \A j \in Sends(i) : trace[j].address = trace[i].address
    /\ \A i \in WildcardDispatches : \A j \in Sends(i) :
           /\ \E k \in Invokes(i) : k < j
           /\ trace[j].address = trace[InvokeBefore(i, j)].key
           /\ HasKey(callbacks, trace[j].address)
           /\ re_match(Regex(trace[i].address), trace[j].address)
           /\ trace[j].params = Outcome(Lookup(callbacks, trace[j].address)).rv

(* A fan-out with replies at two different registered addresses, neither   *)
(* of them the address of the request.                                     *)
C18_Witness ==
    \E i \in WildcardDispatches : \E j1, j2 \in Sends(i) :
        /\ trace[j1].address = AddrA /\ trace[j2].address = AddrAB
        /\ trace[i].address = AddrStar

---------------------------------------------------------------------------
(* C19: a wildcard-bearing address with no exact registration invokes      *)
(* every registration whose address matches, once each, whatever error any *)
(* of the matching handlers raises.                                        *)
C19_FanOutInvokesAll ==
    \A i \in WildcardDispatches :
        \A k \in Matching(i) :
            Cardinality({j \in Invokes(i) : trace[j].key = callbacks[k].address}) = 1

---------------------------------------------------------------------------
(* Address a is pattern p with each wildcard replaced by a non-empty       *)
(* string without a delimiter.                                             *)
RECURSIVE Substitutes(_, _)
Substitutes(p, a) ==
    IF p = <<>> THEN a = <<>>
    ELSE IF Head(p) = "*"
    THEN \E n \in 1..Len(a) :
             /\ \A m \in 1..n : a[m] # "/"
             /\ Substitutes(Tail(p), SubSeq(a, n + 1, Len(a)))
    ELSE a # <<>> /\ Head(a) = Head(p) /\ Substitutes(Tail(p), Tail(a))

InvokedAt(i, a) == \E j \in Invokes(i) : trace[j].key = a

(* C20: the wildcard stands for exactly one address segment: a wildcard    *)
(* dispatch invokes a registered address only if the whole of it is the    *)
(* pattern with each wildcard replaced by a non-empty delimiter-free       *)
(* string, and invokes every such address that no handler's error cuts off.*)
C20_WholeAddressMatch ==
    \A i \in WildcardDispatches :
        \A k \in 1..Len(callbacks) :
            /\ InvokedAt(i, callbacks[k].address)
                   => Substitutes(trace[i].address, callbacks[k].address)
            /\ (/\ Substitutes(trace[i].address, callbacks[k].address)
                /\ \A m \in Matching(i) : m < k => ~Fatal(m))
                   => InvokedAt(i, callbacks[k].address)

---------------------------------------------------------------------------
(* The dispatches of an address that has no exact registration and that    *)
(* no registered address matches: for an address without a wildcard the    *)
(* pattern is the address itself.                                          *)
UnknownDispatches ==
    {i \in Dispatches :
        /\ ~HasKey(callbacks, trace[i].address)
        /\ \A k \in 1..Len(callbacks) : ~Substitutes(trace[i].address, callbacks[k].address)}

(* The first event after dispatch i that is not part of it. *)
After(i) == i + Cardinality(Segment(i)) + 1

(* The place of dispatch i among the dispatches of its datagram. *)
PlaceOf(i) == Cardinality({k \in Dispatches : ReceiveBefore(i) < k /\ k <= i})

(* What follows dispatch i is the next message of its bundle if there is   *)
(* one, and else the next datagram of the queue if there is one.           *)
GoesOn(i) ==
    LET r == ReceiveBefore(i)
        n == Cardinality({k \in Receives : k <= r})
        data == DatagramOf(r).data
        fl == IF data.magic THEN Flat(data.items) ELSE <<data>>
    IN IF PlaceOf(i) < Len(fl)
       THEN /\ After(i) <= Len(trace)
            /\ trace[After(i)] = EvDispatch(fl[PlaceOf(i) + 1])
       ELSE (n < Len(queue_at_start) /\ ~IsSocketError(queue_at_start[n + 1])) =>
               /\ After(i) <= Len(trace)
               /\ trace[After(i)] = EvRecv(queue_at_start[n + 1])

(* C21: a message whose address has no exact registration and no wildcard  *)
(* match invokes no handler and sends no reply, the process() call it is   *)
(* part of leaves the address table and the listener registry as they      *)
(* were, and the bundle elements and datagrams after it are processed.     *)
C21_UnknownIsDropped ==
    [][op' = "process" =>
          /\ \A i \in UnknownDispatches' :
                 /\ Invokes(i)' = {}
                 /\ {j \in Segment(i)' : trace'[j].ev = "send"} = {}
                 /\ GoesOn(i)'
          /\ UnknownDispatches' # {} =>
                 /\ callbacks' = callbacks
                 /\ registry' = registry
                 /\ raised' = "none"
    ]_vars

---------------------------------------------------------------------------
(* The replies of the dispatcher to the call at j of dispatch i: its sends *)
(* after the call and before the next call.                                *)
RepliesTo(i, j) ==
    {k \in Sends(i) : k > j /\ \A m \in Invokes(i) : m > j => k < m}

Returned(h) == Outcome(h).exc = "none" /\ ~Outcome(h).none

(* C22, as claimed: the dispatcher sends a reply for a call only when the  *)
(* handler returned a non-empty tuple, and none when it returned no value. *)
C22_ReplyOnlyIfNonEmpty ==
    \A i \in Dispatches : \A j \in Invokes(i) :
        /\ RepliesTo(i, j) # {} => (Returned(trace[j].h) /\ Outcome(trace[j].h).rv # <<>>)
        /\ Outcome(trace[j].h).none => RepliesTo(i, j) = {}

(* C22, amended: the dispatcher sends one reply for a call exactly when    *)
(* the handler returned a tuple, the empty tuple included, with the tuple  *)
(* as the arguments; for a handler that returned no value or raised it     *)
(* sends nothing, and it sends nothing that is not the reply to a call.    *)
C22_ReplyIfTuple ==
    \A i \in Dispatches :
        /\ \A j \in Invokes(i) :
               /\ Cardinality(RepliesTo(i, j)) = IF Returned(trace[j].h) THEN 1 ELSE 0
               /\ \A k \in RepliesTo(i, j) :
                      /\ k = j + 1
                      /\ trace[k].params = Outcome(trace[j].h).rv
        /\ \A k \in Sends(i) : \E j \in Invokes(i) : k \in RepliesTo(i, j)

(* One process() call with a reply without arguments to a handler that     *)
(* returned the empty tuple, and with no reply to a handler that returned  *)
(* no value.                                                               *)
C22_Witness ==
    /\ op = "process"
    /\ \E i \in ExactDispatches : \E j \in Invokes(i) :
           /\ trace[j].h = "hEmpty"
           /\ \E k \in RepliesTo(i, j) : trace[k].params = <<>>
    /\ \E i \in Dispatches : \E j \in Invokes(i) :
           /\ Outcome(trace[j].h).none /\ Outcome(trace[j].h).exc = "none"
           /\ RepliesTo(i, j) = {}

---------------------------------------------------------------------------
(* What a process() call took from the socket: the datagrams it received   *)
(* and the socket error that ended it, if one did.                         *)
Taken ==
    Cardinality(Receives)
    + Cardinality({k \in 1..Len(trace) : trace[k].ev = "log" /\ trace[k].h \in {"ECONNRESET", "EBADF"}})

(* C23: process() never blocks: it returns, having received no more than   *)
(* the datagrams that were queued when it started and left the others on   *)
(* the socket, and on an empty queue it returns at once, doing nothing.    *)
C23_NeverBlocks ==
    op = "process" =>
        /\ raised # "blocked"
        /\ trace # <<>> /\ trace[Len(trace)] = EvLog("schedule_message", <<>>)
        /\ Cardinality(Receives) <= Len(queue_at_start)
        /\ udp_socket = "open" =>
               /\ Taken <= Len(queue_at_start)
               /\ udp_queue = SubSeq(queue_at_start, Taken + 1, Len(queue_at_start))
               /\ queue_at_start = <<>> => trace = <<EvLog("schedule_message", <<>>)>>

(* A call that received a full queue and returned with the socket empty,   *)
(* and a call on an empty queue.                                           *)
C23_Witness ==
    /\ op = "process"
    /\ Len(queue_at_start) = MaxQueue
    /\ Cardinality(Receives) = MaxQueue
    /\ udp_queue = <<>>
    /\ \E i \in Dispatches : Invokes(i) # {}

C23_WitnessEmptyQueue ==
    op = "process" /\ queue_at_start = <<>> /\ udp_socket = "open"

---------------------------------------------------------------------------
(* C24: a process() call that received datagrams leaves the default        *)
(* destination at (host of the last one received, fixed reply port), also  *)
(* when that datagram does not decode or has an unknown address; every     *)
(* other step, among them every send with or without a destination,        *)
(* leaves the default destination as it was.                               *)
C24_ReplyTargetIsLastSender ==
    [][/\ (op' = "process" /\ Receives' # {}) =>
              remote_addr' = <<queue_at_start'[Cardinality(Receives')].host, OSC_RESPONSE_PORT>>
       /\ ~(op' = "process" /\ Receives' # {}) => remote_addr' = remote_addr
    ]_vars

(* A call in which a handler sent to the first sender's host and the last  *)
(* datagram, from the other host, did not decode.                          *)
C24_Witness ==
    /\ op = "process"
    /\ Cardinality(Receives) = 2
    /\ ~queue_at_start[2].data.valid
    /\ queue_at_start[1].host # queue_at_start[2].host
    /\ remote_addr = <<queue_at_start[2].host, OSC_RESPONSE_PORT>>
    /\ \E j \in DefaultSends : trace[j].peer[1] = queue_at_start[1].host

(* A call whose last datagram had an unknown address, and an emission of a *)
(* subscription after a datagram was received.                             *)
C24_WitnessUnknown ==
    /\ op = "process"
    /\ Cardinality(Receives) = 2
    /\ queue_at_start[1].host # queue_at_start[2].host
    /\ trace[Len(trace) - 1] = EvLog("unknown", queue_at_start[2].data.address)
    /\ remote_addr[1] = queue_at_start[2].host

C24_WitnessEmission ==
    op = "property_changed" /\ CountSends(trace) >= 1 /\ remote_addr[1] = "h2"

---------------------------------------------------------------------------
(* The receives of the datagrams that did not decode. *)
Undecoded == {r \in Receives : ~DatagramOf(r).data.valid}

C25_WitnessMessage ==
    /\ op = "process"
    /\ \E r \in Undecoded :
           /\ ~DatagramOf(r).data.magic
           /\ \E r2 \in Receives : r2 > r /\ DatagramOf(r2).data.magic /\ DatagramOf(r2).data.valid

---------------------------------------------------------------------------
(* The steps of a listener operation: what it did to the hooks and to the  *)
(* registry, and what it sent.                                             *)
IsStep(e) == e.ev \in {"remove_listener", "del", "add_listener", "record", "send"}
                \/ (e.ev = "log" /\ e.h = "Exception whilst removing listener")

Steps(t) == LET s == SelectSeq(t, IsStep) IN [i \in 1..Len(s) |-> s[i].ev]

(* C26: a _start_listen call that returns has done, in this order: the     *)
(* teardown of the key's subscription if it had one (removal of the hook,  *)
(* or the logged failure of it, and removal of the entry), the installing  *)
(* of the hook on the target, the recording of the key, and one emission   *)
(* of the current value, last; so the key is recorded when its immediate   *)
(* emission is sent.                                                       *)
C26_StartListenOrder ==
    [][(op' = "start_listen" /\ raised' = "none") =>
          LET listener_key == <<args'.prop, args'.params>>
              n == Len(trace')
          IN /\ \E first \in {"remove_listener", "log"} :
                    Steps(trace') =
                        (IF InDict(listener_functions, listener_key)
                         THEN <<first, "del">> ELSE <<>>)
                        \o <<"add_listener", "record", "send">>
             /\ trace'[n - 2] = EvStep("add_listener", listener_key, args'.target)
             /\ trace'[n - 1] = EvStep("record", listener_key, args'.target)
             /\ trace'[n].ev = "send"
             /\ trace'[n].params = args'.params \o tvalue'[args'.target].v
             /\ InDict(listener_functions', listener_key)
             /\ Get(listener_objects', listener_key) = args'.target
             /\ \E h \in hooks' :
                    /\ h.target = args'.target
                    /\ h.fn = Get(listener_functions', listener_key)
    ]_vars

(* A _start_listen of a subscribed key that removed the old hook, and one  *)
(* whose removal of the old hook failed.                                   *)
C26_Witness ==
    /\ op = "start_listen" /\ raised = "none"
    /\ Steps(trace) = <<"remove_listener", "del", "add_listener", "record", "send">>

C26_WitnessRemovalFailed ==
    /\ op = "start_listen" /\ raised = "none"
    /\ Steps(trace) = <<"log", "del", "add_listener", "record", "send">>

---------------------------------------------------------------------------
(* The hooks installed on a target, in the order the target calls them. *)
RECURSIVE HooksFrom(_, _)
HooksFrom(target, id) ==
    IF id > MaxCallbacks THEN <<>>
    ELSE LET hs == {h \in hooks : h.target = target /\ h.fn.id = id}
         IN (IF hs = {} THEN <<>> ELSE <<CHOOSE h \in hs : TRUE>>) \o HooksFrom(target, id + 1)

(* The message an invocation of hook h sends when the default destination  *)
(* is remote_addr: the parameters of the subscription, then the value as a *)
(* tuple.                                                                  *)
Emission(h) ==
    EvSend(<<"/live/", "track", "/get/", h.fn.prop>>,
           h.fn.params \o tvalue[h.target].v, remote_addr, "default")

(* C27: every invocation of a subscription's hook, by a change of the      *)
(* property or by the subscribing call itself, sends exactly one message:  *)
(* the parameters of the subscription followed by the current value as a   *)
(* tuple, to the default destination of that moment, which is the host of  *)
(* the last datagram received and not the host that was current when the   *)
(* subscription was made.                                                  *)
C27_EmissionToCurrentTarget ==
    /\ op = "property_changed" =>
           LET hs == HooksFrom(args.target, 1)
           IN trace = [k \in 1..Len(hs) |-> Emission(hs[k])]
    /\ (op = "start_listen" /\ raised = "none") =>
           /\ CountSends(trace) = 1
           /\ \E h \in hooks :
                  /\ h.fn = Get(listener_functions, <<args.prop, args.params>>)
                  /\ h.target = args.target
                  /\ trace[Len(trace)] = Emission(h)

(* A change of a property with two subscriptions, made while the clients   *)
(* of one host were the last senders, reported with the value as a tuple   *)
(* to the host that sent the last datagram since.                          *)
C27_Witness ==
    /\ op = "property_changed"
    /\ Len(trace) = 2
    /\ tvalue[args.target].is_tuple
    /\ remote_addr[1] = "h2"
    /\ \A h \in hooks : h.target = args.target => h.fn.created_for[1] = "h1"
    /\ \A k \in 1..Len(trace) : trace[k].peer[1] = "h2"

---------------------------------------------------------------------------
(* C28: a _stop_listen of a subscribed key lets no failure of the removal  *)
(* of the hook reach its caller and leaves the key without an entry in the *)
(* registry, also when the target no longer offers the removal operation.  *)
C28_StopAlwaysUnsubscribes ==
    [][(op' = "stop_listen" /\ InDict(listener_functions, <<args'.prop, args'.params>>)) =>
          /\ raised' = "none"
          /\ ~InDict(listener_functions', <<args'.prop, args'.params>>)
          /\ ~InDict(listener_objects', <<args'.prop, args'.params>>)
    ]_vars

---------------------------------------------------------------------------
(* The keys recorded as subscribed. *)
SubscribedKeys == {listener_functions[i].key : i \in 1..Len(listener_functions)}

(* C29: a key that is not recorded as subscribed does not emit: every      *)
(* message that a change of a property makes the registry send is the      *)
(* emission of a subscribed key, its parameters followed by the value.     *)
C29_UnsubscribedNeverEmits ==
    op = "property_changed" =>
        \A k \in 1..Len(trace) :
            trace[k].ev = "send" =>
                \E key \in SubscribedKeys :
                    /\ key[1] = args.prop
                    /\ trace[k].params = key[2] \o tvalue[args.target].v

---------------------------------------------------------------------------
(* The bulk handler fails: it raises, or json.dumps rejects what it        *)
(* returned.                                                               *)
Fails(h) ==
    LET o == BulkOutcome(h) IN o.raises \/ (~o.is_str /\ ~Serialisable(o.value))

FailureMessage(h) ==
    IF BulkOutcome(h).raises THEN BulkOutcome(h).text ELSE StrNotSerializable

(* The text the client reads from the payload: bytes below 128 are the     *)
(* characters themselves.                                                  *)
ClientText(out) ==
    LET b == Payload(out)
    IN IF \A k \in 1..Len(b) : b[k] < 128 THEN [ok |-> TRUE, text |-> b] ELSE decode(b)

(* C30: when the bulk handler of the requested token raises, or its result *)
(* cannot be serialised, the client receives one length-prefixed JSON      *)
(* object {"error": <message>} with the message of the error, and nothing  *)
(* else, and the server closes the connection.                             *)
C30_HandlerFailureAnswered ==
    \A i \in ConnIds :
        (conns[i].invoked /\ Fails(conns[i].handler)) =>
            /\ conns[i].pc = "closed"
            /\ conns[i].path = "handler_error"
            /\ conns[i].responses = 1
            /\ OneFrame(conns[i].out)
            /\ ClientText(conns[i].out).ok
            /\ ErrorMessage(ClientText(conns[i].out).text)
                   = [ok |-> TRUE, text |-> FailureMessage(conns[i].handler)]

(* A handler that raised and a handler whose result json.dumps rejected,   *)
(* each answered on its connection.                                        *)
C30_Witness ==
    \E i, j \in ConnIds :
        /\ conns[i].handler = "bRaise" /\ conns[i].path = "handler_error"
        /\ conns[j].handler = "bOpaque" /\ conns[j].path = "handler_error"

---------------------------------------------------------------------------
(* The next step of the worker of connection j, whichever it is. *)
TcpStepOn(j) == TcpRecvOn(j) \/ TcpLookupOn(j) \/ TcpFetchOn(j) \/ TcpRespondOn(j)

(* C31: while a connection is stalled (its client has connected and has    *)
(* not sent its token), nothing waits for it: the accept loop can accept   *)
(* the next client, every later connection that is not closed can take its *)
(* next step (read, look up, answer and close), and process() can run.     *)
C31_ServedIndependently ==
    \A i \in 1..Len(conns) :
        Stalled(conns, i) =>
            /\ (tcp_server = "listening" /\ Len(conns) < MaxConns) => ENABLED TcpAccept
            /\ \A j \in 1..Len(conns) :
                   (j # i /\ conns[j].pc # "closed") => ENABLED TcpStepOn(j)
            /\ ENABLED Process

(* The first connection is still stalled, the second one, accepted after   *)
(* it, was answered by its handler and closed, and a process() call that   *)
(* started after the stall began has handled a datagram and returned.      *)
C31_Witness ==
    /\ Len(conns) = 2
    /\ Stalled(conns, 1)
    /\ conns[2].pc = "closed" /\ conns[2].path = "hit" /\ conns[2].responses = 1
    /\ op = "process" /\ queue_at_start # <<>> /\ udp_queue = <<>>
    /\ \E k \in 1..Len(trace) : trace[k].ev = "send"

---------------------------------------------------------------------------
(* A worker between its two reads of self.tcp_handlers: the membership     *)
(* test has succeeded and the entry is not fetched yet.                    *)
BetweenReads(i) == conns[i].pc = "fetch"

(* C32: accesses to the bulk-handler table are mutually exclusive: neither *)
(* add_tcp_handler nor clear_handlers changes or replaces the table while  *)
(* a TCP worker is between two of its reads of it.                         *)
C32_TableAccessExclusive ==
    [][(AddTcpHandler \/ ClearHandlers) => \A i \in 1..Len(conns) : ~BetweenReads(i)]_vars

---------------------------------------------------------------------------
(* The connections whose worker received a token and has finished. *)
TokenHandled(i) ==
    /\ conns[i].pc = "closed"
    /\ conns[i].path \notin {"empty", "decode_error", "timeout", "reset"}

(* What a client may read for a token: the response of a bulk handler, or  *)
(* the Unknown request error object for the token it sent.                 *)
HandlerOrUnknown(i) ==
    \/ conns[i].out = UnknownRequestFrames[conns[i].request]
    \/ \E h \in BulkHandlers : conns[i].out = Responses[h].out

(* C33: however the worker handling a received token interleaves with      *)
(* add_tcp_handler and clear_handlers, the client receives exactly one     *)
(* response before the connection closes, the response of a handler        *)
(* registered for the token or the Unknown request error object; it is     *)
(* never left without a response.                                          *)
C33_AlwaysOneResponse ==
    \A i \in 1..Len(conns) :
        TokenHandled(i) => (conns[i].responses = 1 /\ HandlerOrUnknown(i))

---------------------------------------------------------------------------
(* C34: whatever reply port the server was constructed with, the port of   *)
(* ReplyTarget is the port used for replies, so every message process()    *)
(* sends, a reply or an emission without override, goes to that port.      *)
C34_OneReplyPort ==
    /\ remote_addr[2] = response_port
    /\ \A k \in 1..Len(trace) : trace[k].ev = "send" => trace[k].peer[2] = response_port

---------------------------------------------------------------------------
(* C35: on every path through the client handler, a failure after the      *)
(* length prefix was written included, what the server has written when it *)
(* closes the connection is nothing or exactly one well-formed frame: four *)
(* bytes of length N and exactly N bytes after them.                       *)
C35_NothingOrOneFrame ==
    \A i \in 1..Len(conns) :
        conns[i].pc = "closed" => (conns[i].out = <<>> \/ OneFrame(conns[i].out))

---------------------------------------------------------------------------
(* C36: on whichever listener of the bulk port a connection is accepted,   *)
(* the server's or a collaborator's, a token the collaborators registered  *)
(* is served by its handler.                                               *)
C36_ServedOnEveryListener ==
    \A i \in 1..Len(conns) :
        (TokenHandled(i) /\ InDict(tcp_handlers, conns[i].request)) =>
            /\ conns[i].invoked
            /\ conns[i].handler = Get(tcp_handlers, conns[i].request)
            /\ conns[i].out = Responses[conns[i].handler].out

---------------------------------------------------------------------------
C37_WitnessUnsubscribed ==
    /\ op = "start_listen" /\ raised = "AttributeError"
    /\ ~HasListenerFunctions(args.target, args.prop)
    /\ ~InDict(listener_functions, <<args.prop, args.params>>)
    /\ hooks # {}

---------------------------------------------------------------------------
(* C38: once shutdown() has closed the listening socket the accept loop    *)
(* eventually terminates, however the accept thread interleaves with       *)
(* shutdown(), and no connection is accepted after shutdown() has          *)
(* returned.                                                               *)
C38_AcceptLoopEnds ==
    /\ [](tcp_socket = "closed" => <>(accept_pc = "done"))
    /\ [][tcp_server = "none" => Len(conns') = Len(conns)]_vars
====
